---- MODULE Spec2Model ----
(***************************************************************************)
(* Model of the pantin screenshot server: the deadpool-managed browser     *)
(* pool built in server::start, the screenshot request handler            *)
(* (routes::screenshot) that borrows a worker and drives it through       *)
(* Marionette commands, the tower-http request deadline, the background   *)
(* retain_loop, and the shutdown path that ends with cleaning_loop.       *)
(*                                                                         *)
(* The pool itself is the deadpool::managed::Pool the server instantiates *)
(* (a semaphore of max_size permits, a FIFO queue of idle objects, a size *)
(* counter and per-object metrics); its operations are modelled at the    *)
(* places where the server calls them.                                    *)
(***************************************************************************)
EXTENDS Integers, Sequences, FiniteSets, TLC

\* ------------------------------------------------------------------ bounds
NumHandlers == 2
MaxSize == 1
MaxWorkers == 2
MaxRecycleCount == 2
MaxStale == 1

NoWorker == 0

NoResponse == [handler |-> 0, error |-> "none"]

\* ------------------------------------------------- connection-level bounds
NumConns == 2
IdModulus == 4
MaxCommands == 5

NoId == -1

Conns == 1..NumConns

Handlers == 1..NumHandlers

\* --------------------------------------------------------- pool-level bounds
\* The specification of the pool alone has more requests in flight and a
\* larger pool than the specification of the whole server.
NumCallers == 4
PoolMaxSize == 2

Callers == 1..NumCallers

\* The workers created at the same time and the ports the system hands out.
NumPortWorkers == 2
NumPorts == 2
NoPort == 0

PortWorkers == 1..NumPortWorkers
Ports == 1..NumPorts
Workers == 1..MaxWorkers

\* The query strings explored: one per shape the handler distinguishes.  `url`
\* is what parse_url makes of the url, `target` whether the selector or xpath
\* the mode asks for is given.  Each field is read at one point of the
\* handler, and the query is drawn where it is read.
Queries ==
  { [url |-> "unparsable",  scrollbar |-> FALSE, delay |-> 0, mode |-> "viewport", target |-> FALSE],
    [url |-> "unsupported", scrollbar |-> FALSE, delay |-> 0, mode |-> "viewport", target |-> FALSE],
    [url |-> "ok",  scrollbar |-> FALSE, delay |-> 0, mode |-> "viewport", target |-> FALSE],
    [url |-> "ok",  scrollbar |-> TRUE,  delay |-> 1, mode |-> "full",     target |-> FALSE],
    [url |-> "ok",  scrollbar |-> TRUE,  delay |-> 0, mode |-> "selector", target |-> TRUE],
    [url |-> "ok",  scrollbar |-> TRUE,  delay |-> 0, mode |-> "selector", target |-> FALSE],
    [url |-> "ok",  scrollbar |-> TRUE,  delay |-> 0, mode |-> "xpath",    target |-> TRUE],
    [url |-> "ok",  scrollbar |-> TRUE,  delay |-> 0, mode |-> "xpath",    target |-> FALSE] }

VARIABLES
  permits,        \* deadpool: permits available in the pool semaphore
  waiters,        \* deadpool: handlers queued on the semaphore, in arrival order
  slots_vec,      \* deadpool: slots.vec, the queue of idle workers
  slots_size,     \* deadpool: slots.size
  recycle_count,  \* deadpool: metrics.recycle_count of each worker
  aged,           \* whether metrics.last_used() has reached browser_max_age
  nextWorker,     \* number of Browser values constructed so far
  proc,           \* the Firefox process of each worker: "none", "alive", "dead"
  profile,        \* whether the profile directory of each worker exists
  pending,        \* response frames sent by Firefox and not yet read, per worker
  fault,          \* the first fault seen on the connection of each worker (history)
  pc,             \* where each request handler is
  obj,            \* the worker each handler holds (being created or checked out)
  awaiting,       \* "no", or the command written was "answered" / "unanswered"
  response,       \* the response the last step sent, if it sent one
  rl_pc,          \* retain_loop: "sleep", "close", "kill", "dead"
  rl_removed,     \* retain_loop: retain_result.removed still to be closed
  srv,            \* start(): "serving", "stopping", "cleaning", "killing", "done"
  cl_removed,     \* cleaning_loop: retain_result.removed still to be closed
  waited,         \* the handlers that queued for a permit and whose get() has
                  \* not returned yet, in the order they queued (history)
  \* One Marionette client seen at the level of envelopes and ids:
  message_id,     \* command.rs: the static MESSAGE_ID
  issued,         \* the ids Command::new has handed out, in order (history)
  conn_pc,        \* Marionette::new / send on each connection
  request,        \* the id of the command written and not yet answered
  last,           \* the last frame read on each connection and what came of it
  owed,           \* the ids of the commands Firefox has yet to answer, per connection
  \* One stream seen at the level of bytes:
  stream,         \* the bytes the peer has sent and the client has not yet read
  fed,            \* the frames the peer sent, in order (history)
  rd_pc,          \* response::read: "none", "length", "string", "closed"
  bytes,          \* read_length: the length accumulated so far
  payload,        \* read_string: the payload read so far
  decoded,        \* what the calls of response::read returned, in order
  wrote,          \* what request::write did: the frame, the bytes accepted, the result
  \* One call of marionette::connect, with time in milliseconds:
  cn_pc,          \* connect: "none", "attempt", "sleep", "connected", "timeout"
  elapsed,        \* connect: now.elapsed()
  attempt_at,     \* now.elapsed() when the last attempt was started (history)
  cn_last,        \* what the last TcpStream::connect returned (history)
  cn_result,      \* what connect returned
  \* One Browser, from Browser::new to close or drop:
  br_pc,          \* "none", "directory", "profile", "process", "open", "kill", "remove",
                  \* "closed", "dropped", "failed"
  br_dir,         \* whether the profile directory exists
  br_child,       \* the Firefox process: "none", "alive", "exited"
  br_code,        \* ExitStatus::code() of a child that exited
  br_socket,      \* the Marionette stream: "none", "open", "closed"
  br_read,        \* close: what self.process.status() returned first (history)
  br_status,      \* close: the local `status`
  br_result,      \* what Browser::new, close or the drop came to
  br_released,    \* the resources released so far, in order (history)
  \* One request to /screenshot, at the level of the commands sent:
  rt_pc,          \* "none", "get", "navigate", "scrollbar", "resize", "delay",
                  \* "find", "shot", "done"
  rt_query,       \* the ScreenshotQuery
  rt_chrome,      \* outer size minus inner size of the window of the worker
  rt_rect,        \* the outer size of the window, once SetWindowRect has set it
  rt_log,         \* the commands that reached the worker, the sleep and the
                  \* release, in order (history)
  rt_error,       \* the api::Error the handler returned, if any
  rt_response,    \* the response sent
  \* Workers created at the same time, at the level of their ports:
  pt_pc,          \* Browser::new of each: "none", "address", "spawned",
                  \* "handshake", "open", "failed"
  pt_port,        \* the port of marionette_address of each
  pt_listener,    \* the worker whose Firefox listens on each port
  pt_peer         \* the worker whose Firefox the client of each has reached

vars == << permits, waiters, slots_vec, slots_size, recycle_count, aged,
           nextWorker, proc, profile, pending, fault, pc, obj, awaiting,
           response, rl_pc, rl_removed, srv, cl_removed, waited,
           message_id, issued, conn_pc, request, last, owed,
           stream, fed, rd_pc, bytes, payload, decoded, wrote,
           cn_pc, elapsed, attempt_at, cn_last, cn_result,
           br_pc, br_dir, br_child, br_code, br_socket, br_read, br_status,
           br_result, br_released,
           rt_pc, rt_query, rt_chrome, rt_rect, rt_log, rt_error, rt_response,
           pt_pc, pt_port, pt_listener, pt_peer >>

serverVars == << permits, waiters, slots_vec, slots_size, recycle_count, aged,
                 nextWorker, proc, profile, pending, fault, pc, obj, awaiting,
                 response, rl_pc, rl_removed, srv, cl_removed, waited >>
clientVars == << message_id, issued, conn_pc, request, last, owed >>

\* The server-level actions describe a connection by `pending` and `awaiting`
\* only; the state below that level is the business of the connection-level
\* specifications.
codecVars == << stream, fed, rd_pc, bytes, payload, decoded, wrote >>

connectVars == << cn_pc, elapsed, attempt_at, cn_last, cn_result >>

browserVars == << br_pc, br_dir, br_child, br_code, br_socket, br_read,
                 br_status, br_result, br_released >>

routeVars == << rt_pc, rt_query, rt_chrome, rt_rect, rt_log, rt_error,
               rt_response >>

portVars == << pt_pc, pt_port, pt_listener, pt_peer >>

wireVars == << clientVars, codecVars, connectVars, browserVars, routeVars,
              portVars >>

poolVars == << permits, waiters, slots_vec, slots_size >>
metricVars == << recycle_count, aged >>
workerVars == << nextWorker, proc, profile >>
retainVars == << rl_pc, rl_removed >>

\* ----------------------------------------------------------------- helpers
Range(s) == { s[i] : i \in DOMAIN s }

Min(a, b) == IF a < b THEN a ELSE b

RemoveFrom(s, x) == SelectSeq(s, LAMBDA y : y # x)

\* The steps of the pipeline during which a checked-out worker is held.
Pipeline == { "navigate", "scrollbar", "resize", "delay", "find", "shot" }

\* The steps that send one Marionette command.
CommandSteps == { "navigate", "scrollbar", "resize", "find", "shot" }

\* ------------------------------------------------------- worker resources
\* Dropping Browser values: Profile's TempDir removes the directory and the
\* KillOnDrop wrapper terminates the child.
ProcAfterDrop(ws) ==
  [w \in Workers |-> IF w \in ws /\ proc[w] = "alive" THEN "dead" ELSE proc[w]]

ProfileAfterDrop(ws) ==
  [w \in Workers |-> IF w \in ws THEN FALSE ELSE profile[w]]

\* Workers taken out of the pool: their metrics are dropped with the pool's
\* ObjectInner and nothing reads their connection again.
Gone(ws) ==
  /\ recycle_count' = [w \in Workers |-> IF w \in ws THEN 0 ELSE recycle_count[w]]
  /\ aged' = [w \in Workers |-> IF w \in ws THEN FALSE ELSE aged[w]]
  /\ pending' = [w \in Workers |-> IF w \in ws THEN 0 ELSE pending[w]]
  /\ fault' = [w \in Workers |-> IF w \in ws THEN "none" ELSE fault[w]]

\* ---------------------------------------------------------- pool semaphore
\* A semaphore that never makes a caller wait.
CanAcquire_Always == TRUE

\* Semaphore::acquire succeeds at once when a permit is available.
CanAcquire == permits > 0

\* A release that gives no permit back.
PermitsAfterRelease_Kept == permits

\* add_permits(1): the permit goes to the first queued waiter, if any.
PermitsAfterRelease == IF waiters = << >> THEN permits + 1 ELSE permits

WaitersAfterRelease == IF waiters = << >> THEN waiters ELSE Tail(waiters)

\* A release that wakes the waiter that queued last.
PcAfterRelease_Last(h, to) ==
  [x \in Callers |->
     IF x = h THEN to
     ELSE IF waiters # << >> /\ x = waiters[Len(waiters)] THEN "permit"
     ELSE pc[x]]

PcAfterRelease(h, to) ==
  [x \in Callers |->
     IF x = h THEN to
     ELSE IF waiters # << >> /\ x = Head(waiters) THEN "permit"
     ELSE pc[x]]

\* A pool that counts a worker whose creation failed.
SizeAfterCreate_Counted(ok) == slots_size + 1

\* Pool::get after Manager::create: slots.size counts the worker once it is
\* made, and an error of create is returned before anything is counted.
SizeAfterCreate(ok) == IF ok THEN slots_size + 1 ELSE slots_size

\* An object that is dropped without being handed back.
ReleasedSlots_Lost(w) == slots_vec

\* Pool::return_object, called by Object::drop: the worker goes back to the
\* idle queue (slots.size <= slots.max_size always holds here).
ReleasedSlots(w) == Append(slots_vec, w)

\* A get that hands out the worker released last.
Front_Last(s) == s[Len(s)]

\* Pool::get hands out the worker at the front of the idle queue, the one
\* that has been idle longest.
Front(s) == Head(s)

\* A get that hands out the front of the idle queue and leaves it queued.
PopFront_Peek(s) == s

\* Pool::get pops the front of the idle queue (QueueMode::Fifo).
PopFront(s) == Tail(s)

\* A retain that also looks at the workers the handlers own.
RetainCandidates_WithOwned == slots_vec \o SelectSeq(obj, LAMBDA w : w # NoWorker)

\* Pool::retain looks at the idle queue only.
RetainCandidates == slots_vec

\* A predicate with the age comparison the wrong way round.
Keep_AgeInverted(w) == recycle_count[w] < MaxRecycleCount /\ aged[w]

\* The predicate retain_loop passes to retain.  The clock is kept as the one
\* comparison made on it: aged[w] is metrics.last_used() >= browser_max_age.
Keep(w) == recycle_count[w] < MaxRecycleCount /\ ~aged[w]

\* ------------------------------------------------------- Marionette frames
\* command::Direction: the first element of an envelope.
DirectionRequest == 0
DirectionResponse == 1

\* What a frame read from Firefox parses to: the handshake object, a success
\* envelope [direction, id, null, value], a failure envelope
\* [direction, id, failure, null], or JSON that is none of them.
Handshakes ==
  [ kind : {"handshake"}, application_type : {"gecko", "other"},
    marionette_protocol : {2, 3} ]

Envelopes ==
  [ kind : {"success", "failure"},
    direction : {DirectionRequest, DirectionResponse},
    id : 0..(IdModulus - 1) ] \cup { [kind |-> "garbage"] }

NoFrame == [kind |-> "none"]

\* A result of request::send or Handshake::read.
Result(kind, request_id, response_id) ==
  [kind |-> kind, request_id |-> request_id, response_id |-> response_id]

\* An exchange: the frame read, the id of the command it was read for, and
\* the result returned.
Exchange(frame, request_id, result) ==
  [frame |-> frame, request_id |-> request_id, result |-> result]

NoExchange == Exchange(NoFrame, NoId, Result("none", NoId, NoId))

\* A handshake that lets any protocol version pass.
HandshakeResult_AnyProtocol(frame) ==
  IF frame.kind # "handshake" THEN Result("ParseResponse", NoId, NoId)
  ELSE IF frame.application_type # "gecko"
    THEN Result("UnexpectedApplicationType", NoId, NoId)
  ELSE Result("Ok", NoId, NoId)

\* Handshake::read: parse_raw, then the two checks in the order of the code.
HandshakeResult(frame) ==
  IF frame.kind # "handshake" THEN Result("ParseResponse", NoId, NoId)
  ELSE IF frame.application_type # "gecko"
    THEN Result("UnexpectedApplicationType", NoId, NoId)
  ELSE IF frame.marionette_protocol # 3
    THEN Result("UnexpectedMarionetteProtocolVersion", NoId, NoId)
  ELSE Result("Ok", NoId, NoId)

\* A send that returns whatever success envelope it reads.
SendResult_NoIdCheck(request_id, frame) ==
  IF frame.kind \notin {"success", "failure"}
    THEN Result("ParseResponse", request_id, NoId)
  ELSE IF frame.kind = "failure"
    THEN Result("CommandFailure", request_id, frame.id)
  ELSE Result("Ok", request_id, frame.id)

\* A send that compares the ids before it looks at the kind of envelope.
SendResult_IdCheckFirst(request_id, frame) ==
  IF frame.kind \notin {"success", "failure"}
    THEN Result("ParseResponse", request_id, NoId)
  ELSE IF request_id # frame.id
    THEN Result("CommandIdMismatch", request_id, frame.id)
  ELSE IF frame.kind = "failure"
    THEN Result("CommandFailure", request_id, frame.id)
  ELSE Result("Ok", request_id, frame.id)

\* request::send once the frame is read: response::parse (a failure envelope
\* is Err(CommandFailure(id, failure)), with the id of the envelope), then the
\* comparison of the ids.  The first element of the envelope is deserialized
\* as a u8 and not looked at.
SendResult(request_id, frame) ==
  IF frame.kind \notin {"success", "failure"}
    THEN Result("ParseResponse", request_id, NoId)
  ELSE IF frame.kind = "failure"
    THEN Result("CommandFailure", request_id, frame.id)
  ELSE IF request_id = frame.id
    THEN Result("Ok", request_id, frame.id)
  ELSE Result("CommandIdMismatch", request_id, frame.id)

\* A counter that hands out its value and stays where it is.
NextMessageId_Stuck(id) == id

\* MESSAGE_ID.fetch_add(1, SeqCst) on an AtomicU32: the addition wraps.  The
\* width of the counter is scaled down to IdModulus values.
NextMessageId(id) == (id + 1) % IdModulus

\* ------------------------------------------------------------ framed codec
\* The most frames the peer sends on one stream.
MaxFrames == 2

\* The bytes of the longest frame the peer sends.
MaxFrameLen == 5

\* The buffer read_string hands to stream.read.
BufferSize == 8192

\* Bytes are the numbers 0..255; '0' and ':' are the two read_length names.
Zero == 48
Colon == 58

\* The values of a usize, its width scaled down.
UsizeModulus == 16

\* read_length: `bytes *= 10; bytes += digit` leaves the range of usize.
Overflows(length, digit) == length * 10 + digit >= UsizeModulus

\* read_length: `bytes *= 10; bytes += digit` as a build without overflow
\* checks computes it.
Accumulate(length, digit) == (length * 10 + digit) % UsizeModulus

\* A match that takes every byte but ':' for a digit.
IsDigit_NotColon(byte) == byte # Colon

IsDigit(byte) == byte \in Zero..(Zero + 9)

NoByte == -1

RECURSIVE Concat(_)
Concat(ss) == IF ss = << >> THEN << >> ELSE Head(ss) \o Concat(Tail(ss))

\* A String is the sequence of its chars (code points below U+0800), and
\* as_bytes() / len() go by its UTF-8 encoding.
Utf8Char(c) ==
  IF c < 128 THEN << c >> ELSE << 192 + (c \div 64), 128 + (c % 64) >>

RECURSIVE Utf8(_)
Utf8(s) == IF s = << >> THEN << >> ELSE Utf8Char(Head(s)) \o Utf8(Tail(s))

\* What String::from_utf8 answers for bytes that are no UTF-8.
Invalid == << NoByte >>

\* String::from_utf8 on the one- and two-byte forms; the inputs explored hold
\* no lead byte of a longer form, so every other byte is invalid here.
RECURSIVE FromUtf8(_)
FromUtf8(b) ==
  IF b = << >> THEN << >>
  ELSE IF b[1] < 128
    THEN LET rest == FromUtf8(Tail(b)) IN
           IF rest = Invalid THEN Invalid ELSE << b[1] >> \o rest
  ELSE IF b[1] \in 194..223 /\ Len(b) >= 2 /\ b[2] \in 128..191
    THEN LET rest == FromUtf8(SubSeq(b, 3, Len(b))) IN
           IF rest = Invalid THEN Invalid
           ELSE << (b[1] - 192) * 64 + (b[2] - 128) >> \o rest
  ELSE Invalid

\* The Display of a usize.
RECURSIVE Digits(_)
Digits(n) ==
  IF n < 10 THEN << Zero + n >> ELSE Digits(n \div 10) \o << Zero + (n % 10) >>

\* A frame whose length prefix counts the chars of the body.
Encode_CharCount(body) == Digits(Len(body)) \o << Colon >> \o Utf8(body)

\* request::write: format!("{}:{}", body.len(), body).as_bytes()
Encode(body) == Digits(Len(Utf8(body))) \o << Colon >> \o Utf8(body)

\* A result of response::read.
ReadResult(kind, string, byte) == [kind |-> kind, string |-> string, byte |-> byte]

\* The last line of read_string.
ReadStringResult(p) ==
  IF FromUtf8(p) = Invalid
    THEN ReadResult("ResponseToString", << >>, NoByte)
    ELSE ReadResult("Ok", FromUtf8(p), NoByte)

NoWrite == [kind |-> "none", data |-> << >>, accepted |-> 0]

\* What the peer sends as one frame: a prefix, ':' and a payload.  The
\* prefixes are "0", "1", "2", "01", "17" and "x"; the payloads are "", "a",
\* "b", "1", U+00E9 in UTF-8, and the byte 0xFF.
Prefixes == { << 48 >>, << 49 >>, << 50 >>, << 48, 49 >>, << 49, 55 >>, << 120 >> }

Payloads == { << >>, << 97 >>, << 98 >>, << 49 >>, << 195, 169 >>, << 255 >> }

Items == [prefix : Prefixes, payload : Payloads]

ItemBytes(x) == x.prefix \o << Colon >> \o x.payload

FeedInputs == UNION { [1..n -> Items] : n \in 1..MaxFrames }

\* The JSON bodies written: "a", U+00E9, and the two together.
Bodies == { << 97 >>, << 233 >>, << 97, 233 >> }

\* ----------------------------------------------------- connect with retry
\* Marionette::new calls connect(address, 2000, 100).
TimeoutMs == 2000
IntervalMs == 100

\* An attempt takes 0..MaxAttemptMs, and a sleep overruns by 0..MaxOversleepMs.
MaxAttemptMs == 1
MaxOversleepMs == 1

\* The address connect is given.
Address == "127.0.0.1:2828"

\* The io::Error of a failed TcpStream::connect.
IoErrors == { "ConnectionRefused", "TimedOut" }

NoConnectResult == [kind |-> "none", address |-> "none", timeout |-> 0, source |-> "none"]

ConnectOk == [kind |-> "Ok", address |-> Address, timeout |-> 0, source |-> "none"]

\* A ConnectionTimeout that does not say what failed.
ConnectionTimeout_NoSource(source) ==
  [kind |-> "ConnectionTimeout", address |-> Address, timeout |-> TimeoutMs, source |-> "none"]

\* Error::ConnectionTimeout { address: address.to_string(), timeout, source }
ConnectionTimeout(source) ==
  [kind |-> "ConnectionTimeout", address |-> Address, timeout |-> TimeoutMs, source |-> source]

\* ------------------------------------------------ the resources of a worker
\* The exit codes a Firefox process ends with, and ExitStatus::code() of a
\* process that was ended by a signal.
MaxExitCode == 2

ExitCodes == 0..MaxExitCode

NoCode == -1

\* What try_wait reports when it fails.
TryWaitError == "try_wait failed"

\* process::Status.
NoStatus == [kind |-> "none", code |-> NoCode, error |-> ""]

StatusAlive == [kind |-> "Alive", code |-> NoCode, error |-> ""]

StatusExiting == [kind |-> "Exiting", code |-> NoCode, error |-> ""]

StatusExited(code) == [kind |-> "Exited", code |-> code, error |-> ""]

StatusError(error) == [kind |-> "Error", code |-> NoCode, error |-> error]

\* Process::status: try_wait gives Ok(None), Ok(Some(status)) or Err(error).
ProcessStatus(child, code, err) ==
  IF err THEN StatusError(TryWaitError)
  ELSE IF child = "alive" THEN StatusAlive
  ELSE IF code = NoCode THEN StatusExiting
  ELSE StatusExited(code)

\* What Browser::new and Browser::close return, and a panic.
NoResult == [kind |-> "none", status |-> NoStatus]

NewOk == [kind |-> "Browser", status |-> NoStatus]

NewError(kind) == [kind |-> kind, status |-> NoStatus]

CloseOk(status) == [kind |-> "Ok", status |-> status]

ChildStatus_AsOk(error) == [kind |-> "Ok", status |-> StatusError(error)]

ChildStatus(error) == [kind |-> "ChildStatus", status |-> StatusError(error)]

KillChild == [kind |-> "KillChild", status |-> NoStatus]

RemoveDirectory == [kind |-> "RemoveDirectory", status |-> NoStatus]

Panic == [kind |-> "panic", status |-> NoStatus]

\* How Marionette::new fails.
MarionetteErrors == {"ConnectionTimeout", "Handshake", "NewSession"}

\* ------------------------------------------------- the screenshot route
\* Option<T>: None and Some(value).
None == << >>

Some(value) == << value >>

UnwrapOr(option, default) == IF option = None THEN default ELSE option[1]

\* The defaults of the query and the status codes of the responses.
DefaultWidth == 800
DefaultHeight == 600
DefaultDelay == 0
StatusOk == 200
BadRequest == 400
UnprocessableEntity == 422
InternalServerError == 500
RequestTimeout == 408

\* The width and height a query asks for when it gives them, and the largest
\* difference between the outer and the inner size of the Firefox window.
OtherWidth == 1024
OtherHeight == 768
MaxChrome == 1

Sizes == [width : 0..MaxChrome, height : 0..MaxChrome]

NoSize == [width |-> 0, height |-> 0]

\* The query strings that deserialize into a ScreenshotQuery.
ScreenshotQueries ==
  [ url : {"ok", "unparsable", "unsupported"},
    delay : {None, Some(0), Some(1)},
    width : {None, Some(OtherWidth)},
    height : {None, Some(OtherHeight)},
    scrollbar : {None, Some(TRUE), Some(FALSE)},
    mode : {None, Some("full"), Some("viewport"), Some("selector"), Some("xpath")},
    selector : {None, Some("h1")},
    xpath : {None, Some("//h1")} ]

NoQuery ==
  [url |-> "", delay |-> None, width |-> None, height |-> None,
   scrollbar |-> None, mode |-> None, selector |-> None, xpath |-> None]

\* The steps of the handler that send one command.
RouteCommandSteps == {"navigate", "scrollbar", "resize", "find", "shot"}

\* The match on the mode: the step it leads to, "missing" when the field the
\* mode needs is absent.
ModeStep(q) ==
  LET mode == UnwrapOr(q.mode, "viewport") IN
    IF mode \in {"full", "viewport"} THEN "shot"
    ELSE IF mode = "selector" THEN (IF q.selector = None THEN "missing" ELSE "find")
    ELSE (IF q.xpath = None THEN "missing" ELSE "find")

\* The step of the handler that follows a step that succeeded.
ScreenshotNext_NoScrollbarStep(step, q) ==
  CASE step = "navigate"  -> "resize"
    [] step = "scrollbar" -> "resize"
    [] step = "resize"    -> (IF UnwrapOr(q.delay, DefaultDelay) > 0 THEN "delay"
                              ELSE ModeStep(q))
    [] step = "delay"     -> ModeStep(q)
    [] step = "find"      -> "shot"
    [] step = "shot"      -> "done"

ScreenshotNext(step, q) ==
  CASE step = "navigate"  -> (IF ~UnwrapOr(q.scrollbar, FALSE) THEN "scrollbar"
                              ELSE "resize")
    [] step = "scrollbar" -> "resize"
    [] step = "resize"    -> (IF UnwrapOr(q.delay, DefaultDelay) > 0 THEN "delay"
                              ELSE ModeStep(q))
    [] step = "delay"     -> ModeStep(q)
    [] step = "find"      -> "shot"
    [] step = "shot"      -> "done"

\* The script of hide_body_scrollbar and the script of
\* get_window_to_viewport_size.
HideScrollbarScript == "inject_header_styles"

DeltaScript == "get_window_to_viewport_size"

\* An entry of the log: a command that reached the worker, the sleep, or the
\* release of the worker.
Entry(name, arg) == [name |-> name, arg |-> arg]

\* The command a step sends.
StepCommand(step, q) ==
  CASE step = "navigate"  -> Entry("WebDriver:Navigate", << q.url >>)
    [] step = "scrollbar" -> Entry("WebDriver:ExecuteScript", << HideScrollbarScript >>)
    [] step = "resize"    -> Entry("WebDriver:SetWindowRect",
                                   << UnwrapOr(q.width, DefaultWidth),
                                      UnwrapOr(q.height, DefaultHeight) >>)
    [] step = "find"      -> Entry("WebDriver:FindElement",
                                   IF UnwrapOr(q.mode, "viewport") = "selector"
                                     THEN << "css selector", q.selector[1] >>
                                     ELSE << "xpath", q.xpath[1] >>)
    [] step = "shot"      -> Entry("WebDriver:TakeScreenshot",
                                   << UnwrapOr(q.mode, "viewport") >>)

\* api::Error: the variant it wraps (`via`), the kind of the innermost error,
\* its Display text, and the text into_response takes from inside it.
ApiError(via, kind, text, inner) ==
  [via |-> via, kind |-> kind, text |-> text, inner |-> inner]

NoError == ApiError("none", "none", "", "")

MissingField_NoName(field) ==
  ApiError("Api", "MissingField", "missing field", "")

MissingField(field) ==
  ApiError("Api", "MissingField", "missing field: " \o field, "")

QueryRejection ==
  ApiError("Api", "QueryRejection", "",
           "Failed to deserialize query string: missing field")

ParseUrl ==
  ApiError("Browser", "ParseUrl", "parse url failed: empty host", "empty host")

UnsupportedUrlProtocol ==
  ApiError("Browser", "UnsupportedUrlProtocol",
           "unsupported url protocol: only 'http://' and 'https://' are allowed", "")

\* How a request ends when TimeoutLayer ends it: no api::Error is made.
Elapsed == ApiError("TimeoutLayer", "Elapsed", "", "")

\* The Failure of a failure envelope, and the error made of it.
FailureError == "no such element"

FailureMessage == "Unable to locate element"

CommandFailure(via) ==
  ApiError(via, "CommandFailure", "command (id=1) failed",
           FailureError \o ": " \o FailureMessage)

\* The other ways a command fails: the write, the framing, the id check.
CommandErrors ==
  { ApiError("Browser", "FailedToWriteRequest", "write request to stream failed", ""),
    ApiError("Browser", "UnexpectedEndOfResponse", "unexpected end of response", ""),
    ApiError("Browser", "CommandIdMismatch", "command id mismatch: expected 1, got: 0", ""),
    CommandFailure("Browser") }

\* The ways get_browser fails: Browser::open failed in Manager::create.
StateErrors ==
  { ApiError("State", "ConnectionTimeout", "connection timout", ""),
    ApiError("State", "SpawnCommand", "spawn command failed", ""),
    ApiError("State", "CreateDirectory", "create temporary profile directory failed", ""),
    CommandFailure("State") }

\* A response: its status and, for an error, the cause of its body.
RouteResponse(status, cause) == [status |-> status, cause |-> cause]

NoRouteResponse == RouteResponse(0, "")

\* api::Error::into_response.
IntoResponse(error) ==
  IF error.kind = "QueryRejection" THEN RouteResponse(BadRequest, error.inner)
  ELSE IF error.kind = "MissingField" THEN RouteResponse(BadRequest, error.text)
  ELSE IF error.via = "Browser" /\ error.kind = "ParseUrl"
    THEN RouteResponse(BadRequest, error.inner)
  ELSE IF error.via = "Browser" /\ error.kind = "CommandFailure"
    THEN RouteResponse(UnprocessableEntity, error.inner)
  ELSE RouteResponse(InternalServerError, error.text)

\* ------------------------------------------------------------------- Init
InitWith(max_size) ==
  /\ permits = max_size
  /\ waiters = << >>
  /\ waited = << >>
  /\ slots_vec = << >>
  /\ slots_size = 0
  /\ recycle_count = [w \in Workers |-> 0]
  /\ aged = [w \in Workers |-> FALSE]
  /\ nextWorker = 0
  /\ proc = [w \in Workers |-> "none"]
  /\ profile = [w \in Workers |-> FALSE]
  /\ pending = [w \in Workers |-> 0]
  /\ fault = [w \in Workers |-> "none"]
  /\ pc = [h \in Callers |-> "idle"]
  /\ obj = [h \in Callers |-> NoWorker]
  /\ awaiting = [h \in Callers |-> "no"]
  /\ response = NoResponse
  /\ rl_pc = "sleep"
  /\ rl_removed = << >>
  /\ srv = "serving"
  /\ cl_removed = << >>
  /\ message_id = 0
  /\ issued = << >>
  /\ conn_pc = [c \in Conns |-> "none"]
  /\ request = [c \in Conns |-> NoId]
  /\ last = [c \in Conns |-> NoExchange]
  /\ owed = [c \in Conns |-> << >>]
  /\ stream = << >>
  /\ fed = << >>
  /\ rd_pc = "none"
  /\ bytes = 0
  /\ payload = << >>
  /\ decoded = << >>
  /\ wrote = NoWrite
  /\ cn_pc = "none"
  /\ elapsed = 0
  /\ attempt_at = 0
  /\ cn_last = "none"
  /\ cn_result = NoConnectResult
  /\ br_pc = "none"
  /\ br_dir = FALSE
  /\ br_child = "none"
  /\ br_code = NoCode
  /\ br_socket = "none"
  /\ br_read = NoStatus
  /\ br_status = NoResult
  /\ br_result = NoResult
  /\ br_released = << >>
  /\ rt_pc = "none"
  /\ rt_query = NoQuery
  /\ rt_chrome = NoSize
  /\ rt_rect = NoSize
  /\ rt_log = << >>
  /\ rt_error = NoError
  /\ rt_response = NoRouteResponse
  /\ pt_pc = [w \in PortWorkers |-> "none"]
  /\ pt_port = [w \in PortWorkers |-> NoPort]
  /\ pt_listener = [p \in Ports |-> NoWorker]
  /\ pt_peer = [w \in PortWorkers |-> NoWorker]

\* server::start builds the pool with max_size = browser_pool_max_size.
Init == InitWith(MaxSize)

\* A step that sends no response and in which no get() returns.
Silent == response' = NoResponse /\ UNCHANGED << waited, wireVars >>

\* A step that sends no response and in which the get() of h returns.
SilentGot(h) ==
  response' = NoResponse /\ waited' = RemoveFrom(waited, h) /\ UNCHANGED wireVars

\* The handler answers the request: Ok(response) or api::Error::into_response.
\* Its get(), if it was still running, is over.
Respond(h, error) ==
  /\ response' = [handler |-> h, error |-> error]
  /\ waited' = RemoveFrom(waited, h)
  /\ UNCHANGED wireVars

\* The first fault seen on the connection of w.
FaultAfter(w, f) == [fault EXCEPT ![w] = IF @ = "none" THEN f ELSE @]

\* ------------------------------------------------------- request handlers
\* A request reaches routes::screenshot, which calls state.get_browser():
\* Pool::get first acquires a semaphore permit or queues for one.
Arrive(h) ==
  /\ srv = "serving"
  /\ pc[h] = "idle"
  /\ IF CanAcquire
       THEN /\ permits' = permits - 1
            /\ pc' = [pc EXCEPT ![h] = "permit"]
            /\ UNCHANGED waiters
            /\ UNCHANGED waited
       ELSE /\ waiters' = Append(waiters, h)
            /\ waited' = Append(waited, h)
            /\ pc' = [pc EXCEPT ![h] = "acquire"]
            /\ UNCHANGED permits
  /\ response' = NoResponse
  /\ UNCHANGED wireVars
  /\ UNCHANGED << slots_vec, slots_size, metricVars, workerVars, pending, fault,
                  obj, awaiting, retainVars, srv, cl_removed >>

\* Pool::get with a permit and an idle worker: pop it, Manager::recycle
\* returns Ok(()), the metrics are bumped, the permit is forgotten.  The
\* handler now holds the worker.  recycle_count saturates at the limit it is
\* compared to.
TakeIdle(h) ==
  /\ pc[h] = "permit"
  /\ slots_vec # << >>
  /\ LET w == Front(slots_vec) IN
       /\ slots_vec' = PopFront(slots_vec)
       /\ recycle_count' = [recycle_count EXCEPT ![w] = Min(@ + 1, MaxRecycleCount)]
       /\ aged' = [aged EXCEPT ![w] = FALSE]
       /\ obj' = [obj EXCEPT ![h] = w]
  /\ pc' = [pc EXCEPT ![h] = "navigate"]
  /\ SilentGot(h)
  /\ UNCHANGED << permits, waiters, slots_size, workerVars, pending, fault,
                  awaiting, retainVars, srv, cl_removed >>

\* Pool::get with a permit and no idle worker: Manager::create calls
\* Browser::open, which makes the profile and spawns Firefox, then awaits the
\* Marionette connection.
CreateBegin(h) ==
  /\ pc[h] = "permit"
  /\ slots_vec = << >>
  /\ nextWorker < MaxWorkers
  /\ LET w == nextWorker + 1 IN
       /\ nextWorker' = w
       /\ proc' = [proc EXCEPT ![w] = "alive"]
       /\ profile' = [profile EXCEPT ![w] = TRUE]
       /\ obj' = [obj EXCEPT ![h] = w]
  /\ pc' = [pc EXCEPT ![h] = "creating"]
  /\ Silent
  /\ UNCHANGED << poolVars, metricVars, pending, fault, awaiting,
                  retainVars, srv, cl_removed >>

\* Profile::new or Process::spawn fails: nothing is left behind, the permit is
\* dropped and the handler answers with the pool error.
CreateSpawnFails(h) ==
  /\ pc[h] = "permit"
  /\ slots_vec = << >>
  /\ permits' = PermitsAfterRelease
  /\ waiters' = WaitersAfterRelease
  /\ pc' = PcAfterRelease(h, "idle")
  /\ slots_size' = SizeAfterCreate(FALSE)
  /\ Respond(h, "Pool")
  /\ UNCHANGED << slots_vec, metricVars, workerVars, pending, fault,
                  obj, awaiting, retainVars, srv, cl_removed >>

\* Marionette::new succeeded: the object is counted in slots.size, its metrics
\* start at their defaults and the permit is forgotten.  The handler now holds
\* the worker.
CreateDone(h) ==
  /\ pc[h] = "creating"
  /\ slots_size' = SizeAfterCreate(TRUE)
  /\ recycle_count' = [recycle_count EXCEPT ![obj[h]] = 0]
  /\ aged' = [aged EXCEPT ![obj[h]] = FALSE]
  /\ pc' = [pc EXCEPT ![h] = "navigate"]
  /\ SilentGot(h)
  /\ UNCHANGED << permits, waiters, slots_vec, workerVars, pending, fault, obj,
                  awaiting, retainVars, srv, cl_removed >>

\* Marionette::new failed (connection timeout, handshake, NewSession): the
\* profile and the process, locals of Browser::new, are dropped.
CreateFails(h) ==
  /\ pc[h] = "creating"
  /\ proc' = ProcAfterDrop({obj[h]})
  /\ profile' = ProfileAfterDrop({obj[h]})
  /\ obj' = [obj EXCEPT ![h] = NoWorker]
  /\ permits' = PermitsAfterRelease
  /\ waiters' = WaitersAfterRelease
  /\ pc' = PcAfterRelease(h, "idle")
  /\ slots_size' = SizeAfterCreate(FALSE)
  /\ Respond(h, "Pool")
  /\ UNCHANGED << slots_vec, metricVars, nextWorker, pending, fault,
                  awaiting, retainVars, srv, cl_removed >>

\* ------------------------------------------------------------ the pipeline
\* Object::drop at the end of the handler (return or `?`): the worker goes
\* back to the pool and its permit is released.
Finish(h, error) ==
  /\ slots_vec' = ReleasedSlots(obj[h])
  /\ permits' = PermitsAfterRelease
  /\ waiters' = WaitersAfterRelease
  /\ pc' = PcAfterRelease(h, "idle")
  /\ obj' = [obj EXCEPT ![h] = NoWorker]
  /\ awaiting' = [awaiting EXCEPT ![h] = "no"]
  /\ Respond(h, error)
  /\ UNCHANGED << slots_size, metricVars, workerVars, retainVars, srv, cl_removed >>

\* What follows the delay: the match on the screenshot mode.
AfterDelay(q) ==
  IF q.mode \in {"full", "viewport"} THEN "shot"
  ELSE IF q.target THEN "find" ELSE "missing"

\* The step that follows a step that succeeded.
NextStep(step, q) ==
  CASE step = "navigate"  -> (IF ~q.scrollbar THEN "scrollbar" ELSE "resize")
    [] step = "scrollbar" -> "resize"
    [] step = "resize"    -> (IF q.delay > 0 THEN "delay" ELSE AfterDelay(q))
    [] step = "delay"     -> AfterDelay(q)
    [] step = "find"      -> "shot"
    [] step = "shot"      -> "done"

\* Browser::navigate: parse_url rejects the url before any command is sent.
RejectUrl(h, q) ==
  /\ pc[h] = "navigate"
  /\ awaiting[h] = "no"
  /\ q.url # "ok"
  /\ Finish(h, IF q.url = "unparsable" THEN "ParseUrl" ELSE "UnsupportedUrlProtocol")
  /\ UNCHANGED << pending, fault >>

\* request::write: the command frame is written (for navigate, parse_url
\* accepted the url).  A live Firefox will answer
\* it with one frame; a Firefox that has exited answers nothing.
SendCommand(h) ==
  /\ pc[h] \in CommandSteps
  /\ awaiting[h] = "no"
  /\ IF proc[obj[h]] = "alive"
       THEN /\ pending' = [pending EXCEPT ![obj[h]] = @ + 1]
            /\ awaiting' = [awaiting EXCEPT ![h] = "answered"]
       ELSE /\ UNCHANGED pending
            /\ awaiting' = [awaiting EXCEPT ![h] = "unanswered"]
  /\ Silent
  /\ UNCHANGED << poolVars, metricVars, workerVars, fault, pc, obj,
                  retainVars, srv, cl_removed >>

\* request::write fails (FailedToWriteRequest).
WriteFails(h) ==
  /\ pc[h] \in CommandSteps
  /\ awaiting[h] = "no"
  /\ Finish(h, "FailedToWriteRequest")
  /\ UNCHANGED << pending, fault >>

\* The frame at the head of the stream answers the command just written only
\* if no frame of an abandoned command precedes it.
HeadIsCurrent(h) == awaiting[h] = "answered" /\ pending[obj[h]] = 1

\* What response::read and response::parse can make of the next frame when it
\* is not the answer expected: a success envelope with another id ("wrongid"),
\* a failure envelope ("fail"), or bytes that are no frame ("bad"); at the end
\* of the stream only "bad".
BadFrames(h) ==
  IF pending[obj[h]] = 0 THEN { "bad" } ELSE { "wrongid", "fail", "bad" }

\* response::read and response::parse on the next frame of the stream, then
\* the id check of request::send: the frame is the success envelope that
\* answers the command, and the handler goes on with the step the query asks
\* for.
ReadResponse(h, q) ==
  /\ HeadIsCurrent(h)
  /\ LET next == NextStep(pc[h], q) IN
       /\ pending' = [pending EXCEPT ![obj[h]] = @ - 1]
       /\ UNCHANGED fault
       /\ IF next = "missing"
            THEN Finish(h, "MissingField")
          ELSE IF next = "done"
            THEN Finish(h, "Ok")
          ELSE /\ pc' = [pc EXCEPT ![h] = next]
               /\ awaiting' = [awaiting EXCEPT ![h] = "no"]
               /\ Silent
               /\ UNCHANGED << poolVars, metricVars, workerVars, obj,
                               retainVars, srv, cl_removed >>

\* response::read, response::parse or the id check fails: the `?` of the
\* handler returns the error.
ReadFails(h, frame) ==
  /\ awaiting[h] # "no"
  /\ frame \in BadFrames(h)
  /\ pending' = [pending EXCEPT ![obj[h]] = IF @ > 0 THEN @ - 1 ELSE 0]
  /\ IF frame = "bad"
       THEN /\ fault' = FaultAfter(obj[h], "framing")
            /\ Finish(h, "Framing")
     ELSE IF frame = "fail"
       THEN /\ UNCHANGED fault
            /\ Finish(h, "CommandFailure")
     ELSE /\ fault' = FaultAfter(obj[h], "mismatch")
          /\ Finish(h, "CommandIdMismatch")

\* tokio::time::sleep(delay) is over.
Delay(h, q) ==
  /\ pc[h] = "delay"
  /\ LET next == AfterDelay(q) IN
       IF next = "missing"
         THEN Finish(h, "MissingField")
         ELSE /\ pc' = [pc EXCEPT ![h] = next]
              /\ Silent
              /\ UNCHANGED << poolVars, metricVars, workerVars, obj, awaiting,
                              retainVars, srv, cl_removed >>
  /\ UNCHANGED << pending, fault >>

\* TimeoutLayer: the deadline of the request fires and the handler future is
\* dropped where it stands, with whatever it owns.
Timeout(h) ==
  /\ pc[h] # "idle"
  /\ awaiting[h] # "no" => pending[obj[h]] <= MaxStale
  /\ Respond(h, "Timeout")
  /\ awaiting' = [awaiting EXCEPT ![h] = "no"]
  /\ obj' = [obj EXCEPT ![h] = NoWorker]
  /\ IF pc[h] = "acquire"
       THEN /\ waiters' = RemoveFrom(waiters, h)
            /\ pc' = [pc EXCEPT ![h] = "idle"]
            /\ UNCHANGED << permits, slots_vec, proc, profile, fault >>
     ELSE IF pc[h] = "permit"
       THEN /\ permits' = PermitsAfterRelease
            /\ waiters' = WaitersAfterRelease
            /\ pc' = PcAfterRelease(h, "idle")
            /\ UNCHANGED << slots_vec, proc, profile, fault >>
     ELSE IF pc[h] = "creating"
       THEN /\ proc' = ProcAfterDrop({obj[h]})
            /\ profile' = ProfileAfterDrop({obj[h]})
            /\ permits' = PermitsAfterRelease
            /\ waiters' = WaitersAfterRelease
            /\ pc' = PcAfterRelease(h, "idle")
            /\ UNCHANGED << slots_vec, fault >>
     ELSE /\ slots_vec' = ReleasedSlots(obj[h])
          /\ permits' = PermitsAfterRelease
          /\ waiters' = WaitersAfterRelease
          /\ pc' = PcAfterRelease(h, "idle")
          /\ fault' = FaultAfter(obj[h], "deadline")
          /\ UNCHANGED << proc, profile >>
  /\ UNCHANGED << slots_size, metricVars, nextWorker, pending, retainVars, srv,
                  cl_removed >>

\* ------------------------------------------------------------ retain_loop
\* The sleep is over: browser_pool.retain(..) removes, under the slots lock,
\* the idle workers that fail the predicate and hands them to the loop.
RetainRun ==
  /\ srv # "done"
  /\ rl_pc = "sleep"
  /\ LET removed == SelectSeq(RetainCandidates, LAMBDA w : ~Keep(w)) IN
       /\ slots_vec' = SelectSeq(slots_vec, LAMBDA w : w \notin Range(removed))
       /\ slots_size' = slots_size - Len(removed)
       /\ rl_removed' = removed
       /\ rl_pc' = IF removed = << >> THEN "sleep" ELSE "close"
       /\ Gone(Range(removed))
  /\ Silent
  /\ UNCHANGED << permits, waiters, workerVars, pc,
                  obj, awaiting, srv, cl_removed >>

\* Where the loop stands once the browser at the head of `rest` was closed.
LoopAfterClose(rest) == IF rest = << >> THEN "sleep" ELSE "close"

\* Browser::close on a live process: Process::kill is awaited.
RetainCloseBegin ==
  /\ srv # "done"
  /\ rl_pc = "close"
  /\ proc[Head(rl_removed)] = "alive"
  /\ rl_pc' = "kill"
  /\ Silent
  /\ UNCHANGED << poolVars, metricVars, workerVars, pending, fault, pc, obj,
                  awaiting, rl_removed, srv, cl_removed >>

\* Browser::close on a process that has exited: only the profile is removed.
RetainCloseExited ==
  /\ srv # "done"
  /\ rl_pc = "close"
  /\ proc[Head(rl_removed)] # "alive"
  /\ profile' = [profile EXCEPT ![Head(rl_removed)] = FALSE]
  /\ rl_removed' = Tail(rl_removed)
  /\ rl_pc' = LoopAfterClose(Tail(rl_removed))
  /\ Silent
  /\ UNCHANGED << poolVars, metricVars, nextWorker, proc, pending, fault, pc, obj,
                  awaiting, srv, cl_removed >>

\* Process::kill returned Ok: the profile is removed and close returns.
RetainKillDone ==
  /\ srv # "done"
  /\ rl_pc = "kill"
  /\ proc' = [proc EXCEPT ![Head(rl_removed)] = "dead"]
  /\ profile' = [profile EXCEPT ![Head(rl_removed)] = FALSE]
  /\ rl_removed' = Tail(rl_removed)
  /\ rl_pc' = LoopAfterClose(Tail(rl_removed))
  /\ Silent
  /\ UNCHANGED << poolVars, metricVars, nextWorker, pending, fault, pc, obj,
                  awaiting, srv, cl_removed >>

\* Process::kill returned Err(KillChild): close returns it at once, the `?` of
\* the loop returns from retain_loop, and the browsers still in `removed` are
\* dropped.  Whether the child that could not be killed is still running is
\* not known.
RetainCloseFails ==
  /\ srv # "done"
  /\ rl_pc = "kill"
  /\ \E after \in {"alive", "dead"} :
       proc' = [ProcAfterDrop(Range(Tail(rl_removed))) EXCEPT ![Head(rl_removed)] = after]
  /\ profile' = ProfileAfterDrop(Range(rl_removed))
  /\ rl_removed' = << >>
  /\ rl_pc' = "dead"
  /\ Silent
  /\ UNCHANGED << poolVars, metricVars, nextWorker, pending, fault, pc, obj,
                  awaiting, srv, cl_removed >>

\* --------------------------------------------------- shutdown and cleaning
\* signal::shutdown() resolves: axum stops accepting requests.
ShutdownSignal ==
  /\ srv = "serving"
  /\ srv' = "stopping"
  /\ Silent
  /\ UNCHANGED << poolVars, metricVars, workerVars, pending, fault, pc, obj,
                  awaiting, retainVars, cl_removed >>

\* Where start() stands with the browsers of `rest` still to be closed.
StartAfterClose(rest) == IF rest = << >> THEN "done" ELSE "cleaning"

\* axum::serve returns once no request is in flight; cleaning_loop then calls
\* retain(|_, _| false), which removes every idle worker.
CleanRetain ==
  /\ srv = "stopping"
  /\ \A h \in Handlers : pc[h] = "idle"
  /\ LET removed == RetainCandidates IN
       /\ slots_vec' = SelectSeq(slots_vec, LAMBDA w : w \notin Range(removed))
       /\ slots_size' = slots_size - Len(removed)
       /\ cl_removed' = removed
       /\ srv' = StartAfterClose(removed)
       /\ Gone(Range(removed))
  /\ Silent
  /\ UNCHANGED << permits, waiters, workerVars, pc,
                  obj, awaiting, retainVars >>

CleanCloseBegin ==
  /\ srv = "cleaning"
  /\ proc[Head(cl_removed)] = "alive"
  /\ srv' = "killing"
  /\ Silent
  /\ UNCHANGED << poolVars, metricVars, workerVars, pending, fault, pc, obj,
                  awaiting, retainVars, cl_removed >>

CleanCloseExited ==
  /\ srv = "cleaning"
  /\ proc[Head(cl_removed)] # "alive"
  /\ profile' = [profile EXCEPT ![Head(cl_removed)] = FALSE]
  /\ cl_removed' = Tail(cl_removed)
  /\ srv' = StartAfterClose(Tail(cl_removed))
  /\ Silent
  /\ UNCHANGED << poolVars, metricVars, nextWorker, proc, pending, fault, pc, obj,
                  awaiting, retainVars >>

CleanKillDone ==
  /\ srv = "killing"
  /\ proc' = [proc EXCEPT ![Head(cl_removed)] = "dead"]
  /\ profile' = [profile EXCEPT ![Head(cl_removed)] = FALSE]
  /\ cl_removed' = Tail(cl_removed)
  /\ srv' = StartAfterClose(Tail(cl_removed))
  /\ Silent
  /\ UNCHANGED << poolVars, metricVars, nextWorker, pending, fault, pc, obj,
                  awaiting, retainVars >>

\* close fails in cleaning_loop: its `?` makes start() return the error.
CleanCloseFails ==
  /\ srv = "killing"
  /\ \E after \in {"alive", "dead"} :
       proc' = [ProcAfterDrop(Range(Tail(cl_removed))) EXCEPT ![Head(cl_removed)] = after]
  /\ profile' = ProfileAfterDrop(Range(cl_removed))
  /\ cl_removed' = << >>
  /\ srv' = "done"
  /\ Silent
  /\ UNCHANGED << poolVars, metricVars, nextWorker, pending, fault, pc, obj,
                  awaiting, retainVars >>

\* ------------------------------------------------------------ environment
\* The Firefox of a worker somebody still owns exits on its own.
FirefoxExit(w) ==
  /\ srv # "done"
  /\ proc[w] = "alive"
  /\ \/ w \in Range(slots_vec) \cup Range(rl_removed) \cup Range(cl_removed)
     \/ \E h \in Handlers : obj[h] = w
  /\ proc' = [proc EXCEPT ![w] = "dead"]
  /\ Silent
  /\ UNCHANGED << poolVars, metricVars, nextWorker, profile, pending, fault, pc,
                  obj, awaiting, retainVars, srv, cl_removed >>

\* Time passes: browser_max_age has elapsed since w was last used.  Only the
\* age of idle workers is ever read.
Age(w) ==
  /\ srv # "done"
  /\ w \in Range(slots_vec)
  /\ ~aged[w]
  /\ aged' = [aged EXCEPT ![w] = TRUE]
  /\ Silent
  /\ UNCHANGED << poolVars, recycle_count, workerVars, pending, fault, pc, obj,
                  awaiting, retainVars, srv, cl_removed >>

\* ------------------------------------------------------------------- Next
HandlerStep(h) ==
  \/ Arrive(h)
  \/ TakeIdle(h)
  \/ CreateBegin(h)
  \/ CreateSpawnFails(h)
  \/ CreateDone(h)
  \/ CreateFails(h)
  \/ \E q \in Queries : RejectUrl(h, q)
  \/ SendCommand(h)
  \/ WriteFails(h)
  \/ \E q \in Queries : ReadResponse(h, q)
  \/ \E frame \in {"wrongid", "fail", "bad"} : ReadFails(h, frame)
  \/ \E q \in Queries : Delay(h, q)
  \/ Timeout(h)

Next ==
  \/ \E h \in Handlers : HandlerStep(h)
  \/ RetainRun
  \/ RetainCloseBegin
  \/ RetainCloseExited
  \/ RetainKillDone
  \/ RetainCloseFails
  \/ ShutdownSignal
  \/ CleanRetain
  \/ CleanCloseBegin
  \/ CleanCloseExited
  \/ CleanKillDone
  \/ CleanCloseFails
  \/ \E w \in Workers : FirefoxExit(w)
  \/ \E w \in Workers : Age(w)

Spec == Init /\ [][Next]_vars

\* --------------------------------------------------- the Marionette client
\* A step of the connection-level specifications.
ClientOnly == UNCHANGED << serverVars, codecVars, connectVars, browserVars,
                           routeVars, portVars >>

\* Marionette::new: connect(address, 2000, 100) returned a stream.
Connect(c) ==
  /\ conn_pc[c] = "none"
  /\ conn_pc' = [conn_pc EXCEPT ![c] = "handshake"]
  /\ UNCHANGED << message_id, issued, request, last, owed >>
  /\ ClientOnly

\* Marionette::new: read_handshake(&mut stream).await?
ReadHandshake(c, frame) ==
  /\ conn_pc[c] = "handshake"
  /\ LET result == HandshakeResult(frame) IN
       /\ last' = [last EXCEPT ![c] = Exchange(frame, NoId, result)]
       /\ conn_pc' = [conn_pc EXCEPT ![c] =
                        IF result.kind = "Ok" THEN "new_session" ELSE "failed"]
  /\ UNCHANGED << message_id, issued, request, owed >>
  /\ ClientOnly

\* request::write: Command::new_request takes the next id and the frame is
\* written, for NewSession in Marionette::new and for every later send.
WriteCommand(c) ==
  /\ conn_pc[c] \in {"new_session", "ready"}
  /\ request[c] = NoId
  /\ Len(issued) < MaxCommands
  /\ request' = [request EXCEPT ![c] = message_id]
  /\ issued' = Append(issued, message_id)
  /\ owed' = [owed EXCEPT ![c] = Append(@, message_id)]
  /\ message_id' = NextMessageId(message_id)
  /\ UNCHANGED << conn_pc, last >>
  /\ ClientOnly

\* request::send: the response frame is read and parsed and the ids are
\* compared.  In Marionette::new an error ends the construction.  The frame
\* is what the peer sends for the one command it has yet to answer.
ReadEnvelope(c, frame) ==
  /\ request[c] # NoId
  /\ Len(owed[c]) = 1
  /\ owed' = [owed EXCEPT ![c] = << >>]
  /\ LET result == SendResult(request[c], frame) IN
       /\ last' = [last EXCEPT ![c] = Exchange(frame, request[c], result)]
       /\ conn_pc' = [conn_pc EXCEPT ![c] =
                        IF conn_pc[c] = "ready" \/ result.kind = "Ok"
                          THEN "ready" ELSE "failed"]
  /\ request' = [request EXCEPT ![c] = NoId]
  /\ UNCHANGED << message_id, issued >>
  /\ ClientOnly

\* The future of send is dropped after its command was written, by the
\* deadline of the request: nothing reads the response, and the connection
\* goes back to the pool with the worker.
Abandon(c) ==
  /\ conn_pc[c] = "ready"
  /\ request[c] # NoId
  /\ request' = [request EXCEPT ![c] = NoId]
  /\ UNCHANGED << message_id, issued, conn_pc, last, owed >>
  /\ ClientOnly

\* The response Firefox sends to the command with this id.
ResponseTo(kind, id) == [kind |-> kind, direction |-> DirectionResponse, id |-> id]

\* request::send on a connection where an earlier command was left
\* unanswered: the frame read is the response to the oldest of them.
ReadStale(c, kind) ==
  /\ request[c] # NoId
  /\ Len(owed[c]) > 1
  /\ LET frame == ResponseTo(kind, Head(owed[c])) IN
       last' = [last EXCEPT ![c] =
                  Exchange(frame, request[c], SendResult(request[c], frame))]
  /\ owed' = [owed EXCEPT ![c] = Tail(@)]
  /\ request' = [request EXCEPT ![c] = NoId]
  /\ UNCHANGED << message_id, issued, conn_pc >>
  /\ ClientOnly

ClientNext ==
  \/ \E c \in Conns : Connect(c)
  \/ \E c \in Conns, frame \in Handshakes \cup {[kind |-> "garbage"]} :
       ReadHandshake(c, frame)
  \/ \E c \in Conns : WriteCommand(c)
  \/ \E c \in Conns, frame \in Envelopes : ReadEnvelope(c, frame)
  \/ \E c \in Conns : Abandon(c)
  \/ \E c \in Conns, kind \in {"success", "failure"} : ReadStale(c, kind)

ClientSpec == Init /\ [][ClientNext]_vars

\* ------------------------------------------------------- the framed codec
\* A step of the byte-level specification.
CodecOnly == UNCHANGED << serverVars, clientVars, connectVars, browserVars,
                          routeVars, portVars >>

\* The peer sends its frames, one after the other with nothing in between.
\* A send that failed to write does not come to read.
Feed(items) ==
  /\ rd_pc = "none"
  /\ wrote.kind \in {"none", "Ok"}
  /\ stream' = Concat([i \in DOMAIN items |-> ItemBytes(items[i])])
  /\ fed' = items
  /\ rd_pc' = "length"
  /\ UNCHANGED << bytes, payload, decoded, wrote >>
  /\ CodecOnly

\* response::read returns: the caller takes the result, and after an Ok reads
\* again while frames it was sent are outstanding.
Return(result) ==
  /\ decoded' = Append(decoded, result)
  /\ bytes' = 0
  /\ payload' = << >>
  /\ rd_pc' = IF result.kind = "Ok" /\ Len(decoded) + 1 < Len(fed)
                THEN "length" ELSE "closed"

\* read_length: one turn of the loop, which reads one byte.  At ':' with a
\* length of 0, read_string reads nothing and converts the empty payload.
\* Where the length leaves the range of usize, a build with overflow checks
\* (`checked`) panics and a build without them goes on with the wrapped
\* value.
ReadLength(checked) ==
  /\ rd_pc = "length"
  /\ IF stream = << >>
       THEN /\ Return(ReadResult("UnexpectedEndOfResponse", << >>, NoByte))
            /\ UNCHANGED stream
       ELSE LET byte == Head(stream) IN
              /\ stream' = Tail(stream)
              /\ IF IsDigit(byte)
                   THEN IF checked /\ Overflows(bytes, byte - Zero)
                          THEN Return(ReadResult("panic", << >>, NoByte))
                          ELSE /\ bytes' = Accumulate(bytes, byte - Zero)
                               /\ UNCHANGED << rd_pc, payload, decoded >>
                 ELSE IF byte = Colon
                   THEN IF bytes = 0
                          THEN Return(ReadStringResult(<< >>))
                          ELSE /\ rd_pc' = "string"
                               /\ UNCHANGED << bytes, payload, decoded >>
                 ELSE Return(ReadResult("UnexpectedByte", << >>, byte))
  /\ UNCHANGED << fed, wrote >>
  /\ CodecOnly

\* read_string: one turn of the loop.  stream.read fills the buffer with k of
\* the bytes that are there (0 at the end of the stream), all of them are
\* pushed to the payload, and the loop ends once the payload holds at least
\* `bytes` bytes.
ReadString(k) ==
  /\ rd_pc = "string"
  /\ IF stream = << >>
       THEN /\ k = 0
            /\ Return(ReadResult("UnexpectedEndOfResponse", << >>, NoByte))
            /\ UNCHANGED stream
       ELSE /\ k \in 1..Min(BufferSize, Len(stream))
            /\ stream' = SubSeq(stream, k + 1, Len(stream))
            /\ LET p == payload \o SubSeq(stream, 1, k) IN
                 IF Len(p) < bytes
                   THEN /\ payload' = p
                        /\ UNCHANGED << rd_pc, bytes, decoded >>
                   ELSE Return(ReadStringResult(p))
  /\ UNCHANGED << fed, wrote >>
  /\ CodecOnly

\* request::write: the frame is handed to stream.write once; the stream takes
\* `accepted` of its bytes and write returns Ok(id).
Write(body, accepted) ==
  /\ rd_pc = "none"
  /\ wrote = NoWrite
  /\ accepted \in 1..Len(Encode(body))
  /\ wrote' = [kind |-> "Ok", data |-> Encode(body), accepted |-> accepted]
  /\ UNCHANGED << stream, fed, rd_pc, bytes, payload, decoded >>
  /\ CodecOnly

\* request::write: stream.write returns an error.
WriteError(body) ==
  /\ rd_pc = "none"
  /\ wrote = NoWrite
  /\ wrote' = [kind |-> "FailedToWriteRequest", data |-> Encode(body), accepted |-> 0]
  /\ UNCHANGED << stream, fed, rd_pc, bytes, payload, decoded >>
  /\ CodecOnly

CodecNext ==
  \/ \E items \in FeedInputs : Feed(items)
  \/ \E checked \in BOOLEAN : ReadLength(checked)
  \/ \E k \in 0..(MaxFrames * MaxFrameLen) : ReadString(k)
  \/ \E body \in Bodies : \E accepted \in 1..Len(Encode(body)) : Write(body, accepted)
  \/ \E body \in Bodies : WriteError(body)

CodecSpec == Init /\ [][CodecNext]_vars

\* ----------------------------------------------------- connect with retry
ConnectOnly == UNCHANGED << serverVars, clientVars, codecVars, browserVars,
                            routeVars, portVars >>

\* connect is called: now = Instant::now(), and the loop starts its first
\* attempt.
ConnectBegin ==
  /\ cn_pc = "none"
  /\ cn_pc' = "attempt"
  /\ elapsed' = 0
  /\ attempt_at' = 0
  /\ UNCHANGED << cn_last, cn_result >>
  /\ ConnectOnly

\* TcpStream::connect returns Ok(stream) after d ms: connect returns it.
AttemptSucceeds(d) ==
  /\ cn_pc = "attempt"
  /\ elapsed' = elapsed + d
  /\ cn_last' = "ok"
  /\ cn_pc' = "connected"
  /\ cn_result' = ConnectOk
  /\ UNCHANGED attempt_at
  /\ ConnectOnly

\* TcpStream::connect returns Err(source) after d ms: if now.elapsed() is
\* below the timeout the loop goes to sleep, else connect returns the error.
AttemptFails(d, source) ==
  /\ cn_pc = "attempt"
  /\ elapsed' = elapsed + d
  /\ cn_last' = source
  /\ IF elapsed' < TimeoutMs
       THEN cn_pc' = "sleep" /\ UNCHANGED cn_result
       ELSE cn_pc' = "timeout" /\ cn_result' = ConnectionTimeout(source)
  /\ UNCHANGED attempt_at
  /\ ConnectOnly

\* sleep(interval) is over after IntervalMs + over ms, and the loop starts the
\* next attempt.
SleepDone(over) ==
  /\ cn_pc = "sleep"
  /\ elapsed' = elapsed + IntervalMs + over
  /\ attempt_at' = elapsed'
  /\ cn_pc' = "attempt"
  /\ UNCHANGED << cn_last, cn_result >>
  /\ ConnectOnly

ConnectStep ==
  \/ ConnectBegin
  \/ \E d \in 0..MaxAttemptMs : AttemptSucceeds(d)
  \/ \E d \in 0..MaxAttemptMs, source \in IoErrors : AttemptFails(d, source)
  \/ \E over \in 0..MaxOversleepMs : SleepDone(over)

ConnectSpec == Init /\ [][ConnectStep]_vars

\* Every attempt returns and every sleep ends.
FairConnectSpec == ConnectSpec /\ WF_vars(ConnectStep)

\* ------------------------------------------------- one worker, its resources
\* One Browser seen at the level of its three resources: the profile
\* directory, the Firefox process and the Marionette socket.
BrowserOnly == UNCHANGED << serverVars, clientVars, codecVars, connectVars,
                            routeVars, portVars >>

\* What a release leaves in the log: the resource, and whether the Firefox
\* process was running when it was released.
Released(what, alive) == [what |-> what, alive |-> alive]

\* KillOnDrop: dropping the Process kills a child that is still running.
DroppedChild_Leaked(child) == child

DroppedChild(child) == IF child = "alive" THEN "exited" ELSE child

\* The release of the Process is logged once: when the child is killed, or
\* when the handle of a child that had exited is dropped.
ReleaseProcess(log, alive) ==
  IF \E i \in DOMAIN log : log[i].what = "process" THEN log
  ELSE Append(log, Released("process", alive))

\* The exit code after the Process was dropped: a killed child has none.
DroppedCode(child, code) == IF child = "alive" THEN NoCode ELSE code

\* Dropping the TempDir removes the directory; with panic_on_cleanup_error a
\* removal that fails panics.
DroppedResult(ok, result) == IF ok THEN result ELSE Panic

\* Profile::new, create_directory returned the TempDir.
CreateDirectory ==
  /\ br_pc = "none"
  /\ br_pc' = "directory"
  /\ br_dir' = TRUE
  /\ UNCHANGED << br_child, br_code, br_socket, br_read, br_status, br_result,
                  br_released >>
  /\ BrowserOnly

\* Profile::new, create_directory failed: Browser::new returns the error
\* through `?`.
CreateDirectoryFails ==
  /\ br_pc = "none"
  /\ br_pc' = "failed"
  /\ br_result' = NewError("Profile")
  /\ UNCHANGED << br_dir, br_child, br_code, br_socket, br_read, br_status,
                  br_released >>
  /\ BrowserOnly

\* Profile::new, crate_user_js_file wrote user.js: the profile is returned.
ProfileNew ==
  /\ br_pc = "directory"
  /\ br_pc' = "profile"
  /\ UNCHANGED << br_dir, br_child, br_code, br_socket, br_read, br_status,
                  br_result, br_released >>
  /\ BrowserOnly

\* Profile::new, crate_user_js_file failed (no free address, user.js not
\* written): the local `directory` is dropped and Browser::new returns the
\* error through `?`.
ProfileNewFails(ok) ==
  /\ br_pc = "directory"
  /\ br_pc' = "failed"
  /\ br_dir' = ~ok
  /\ br_released' = IF ok THEN Append(br_released, Released("profile", FALSE))
                    ELSE br_released
  /\ br_result' = DroppedResult(ok, NewError("Profile"))
  /\ UNCHANGED << br_child, br_code, br_socket, br_read, br_status >>
  /\ BrowserOnly

\* Process::spawn returned the child.
Spawn ==
  /\ br_pc = "profile"
  /\ br_pc' = "process"
  /\ br_child' = "alive"
  /\ UNCHANGED << br_dir, br_code, br_socket, br_read, br_status, br_result,
                  br_released >>
  /\ BrowserOnly

\* Process::spawn failed: Browser::new returns through `?` and the local
\* `profile` is dropped.
SpawnFails(ok) ==
  /\ br_pc = "profile"
  /\ br_pc' = "failed"
  /\ br_dir' = ~ok
  /\ br_released' = IF ok THEN Append(br_released, Released("profile", FALSE))
                    ELSE br_released
  /\ br_result' = DroppedResult(ok, NewError("Process"))
  /\ UNCHANGED << br_child, br_code, br_socket, br_read, br_status >>
  /\ BrowserOnly

\* Marionette::new returned the client: Browser::new returns the Browser.
MarionetteNew ==
  /\ br_pc = "process"
  /\ br_pc' = "open"
  /\ br_socket' = "open"
  /\ br_result' = NewOk
  /\ UNCHANGED << br_dir, br_child, br_code, br_read, br_status, br_released >>
  /\ BrowserOnly

\* Marionette::new failed: a stream that was connected is dropped inside it,
\* then Browser::new returns through `?` and its locals are dropped in the
\* reverse order of their declaration, `process` before `profile`.
MarionetteNewFails(error, ok) ==
  /\ br_pc = "process"
  /\ br_pc' = "failed"
  /\ br_socket' = IF error = "ConnectionTimeout" THEN "none" ELSE "closed"
  /\ br_child' = DroppedChild(br_child)
  /\ br_code' = DroppedCode(br_child, br_code)
  /\ br_dir' = ~ok
  /\ br_released' =
       (IF error = "ConnectionTimeout" THEN br_released
        ELSE Append(br_released, Released("socket", br_child = "alive")))
       \o << Released("process", br_child = "alive") >>
       \o (IF ok THEN << Released("profile", br_child' = "alive") >> ELSE << >>)
  /\ br_result' = DroppedResult(ok, NewError("Marionette"))
  /\ UNCHANGED << br_read, br_status >>
  /\ BrowserOnly

\* Firefox exits on its own, with a code or on a signal.
ChildExits(code) ==
  /\ br_pc \in {"process", "open", "kill", "remove"}
  /\ br_child = "alive"
  /\ br_child' = "exited"
  /\ br_code' = code
  /\ UNCHANGED << br_pc, br_dir, br_socket, br_read, br_status, br_result,
                  br_released >>
  /\ BrowserOnly

\* Browser::close, the match on self.process.status(): a live process is to
\* be killed, an inspection that failed becomes Err(ChildStatus), any other
\* status is kept.
CloseBegin(err) ==
  /\ br_pc = "open"
  /\ LET read == ProcessStatus(br_child, br_code, err) IN
       /\ br_read' = read
       /\ br_pc' = IF read.kind = "Alive" THEN "kill" ELSE "remove"
       /\ br_status' = IF read.kind = "Alive" THEN br_status
                       ELSE IF read.kind = "Error" THEN ChildStatus(read.error)
                       ELSE CloseOk(read)
  /\ UNCHANGED << br_dir, br_child, br_code, br_socket, br_result, br_released >>
  /\ BrowserOnly

\* self.process.kill().await returned Ok: the child is gone and its status is
\* read again.
KillOk ==
  /\ br_pc = "kill"
  /\ br_child' = DroppedChild(br_child)
  /\ br_code' = DroppedCode(br_child, br_code)
  /\ br_released' = Append(br_released, Released("process", br_child = "alive"))
  /\ br_status' = CloseOk(ProcessStatus(br_child', br_code', FALSE))
  /\ br_pc' = "remove"
  /\ UNCHANGED << br_dir, br_socket, br_read, br_result >>
  /\ BrowserOnly

\* self.process.kill().await returned Err: close returns KillChild through `?`
\* and `self` is dropped, its fields in the order of their declaration:
\* profile, process, marionette.  Whether the child that could not be killed
\* is still running is not known.
KillFails(ok, killed) ==
  /\ br_pc = "kill"
  /\ br_pc' = "closed"
  /\ br_dir' = ~ok
  /\ br_child' = IF killed THEN DroppedChild(br_child) ELSE br_child
  /\ br_code' = IF killed THEN DroppedCode(br_child, br_code) ELSE br_code
  /\ br_socket' = "closed"
  /\ br_released' =
       (IF ok THEN Append(br_released, Released("profile", br_child = "alive"))
        ELSE br_released)
       \o (IF killed THEN << Released("process", br_child = "alive") >> ELSE << >>)
       \o << Released("socket", br_child' = "alive") >>
  /\ br_result' = DroppedResult(ok, KillChild)
  /\ UNCHANGED << br_read, br_status >>
  /\ BrowserOnly

\* The end of Browser::close: the profile directory is removed if it exists,
\* a removal that fails is returned through `?` in place of `status`, and
\* what is left of `self`, the process and the client, is dropped.
Remove(ok) ==
  /\ br_pc = "remove"
  /\ br_pc' = "closed"
  /\ br_dir' = (br_dir /\ ~ok)
  /\ br_result' = IF br_dir /\ ~ok THEN RemoveDirectory ELSE br_status
  /\ br_child' = DroppedChild(br_child)
  /\ br_code' = DroppedCode(br_child, br_code)
  /\ br_socket' = "closed"
  /\ br_released' =
       Append(ReleaseProcess(IF br_dir /\ ok
                               THEN Append(br_released,
                                           Released("profile", br_child = "alive"))
                               ELSE br_released,
                             br_child = "alive"),
              Released("socket", FALSE))
  /\ UNCHANGED << br_read, br_status >>
  /\ BrowserOnly

\* A Browser is dropped without close: its fields are dropped in the order of
\* their declaration, profile, process, marionette.
Drop(ok) ==
  /\ br_pc = "open"
  /\ br_pc' = "dropped"
  /\ br_dir' = ~ok
  /\ br_child' = DroppedChild(br_child)
  /\ br_code' = DroppedCode(br_child, br_code)
  /\ br_socket' = "closed"
  /\ br_released' =
       (IF ok THEN Append(br_released, Released("profile", br_child = "alive"))
        ELSE br_released)
       \o << Released("process", br_child = "alive"), Released("socket", FALSE) >>
  /\ br_result' = DroppedResult(ok, br_result)
  /\ UNCHANGED << br_read, br_status >>
  /\ BrowserOnly

BrowserStep ==
  \/ CreateDirectory
  \/ CreateDirectoryFails
  \/ ProfileNew
  \/ \E ok \in BOOLEAN : ProfileNewFails(ok)
  \/ Spawn
  \/ \E ok \in BOOLEAN : SpawnFails(ok)
  \/ MarionetteNew
  \/ \E error \in MarionetteErrors, ok \in BOOLEAN : MarionetteNewFails(error, ok)
  \/ \E code \in ExitCodes \cup {NoCode} : ChildExits(code)
  \/ \E err \in BOOLEAN : CloseBegin(err)
  \/ KillOk
  \/ \E ok \in BOOLEAN, killed \in BOOLEAN : KillFails(ok, killed)
  \/ \E ok \in BOOLEAN : Remove(ok)
  \/ \E ok \in BOOLEAN : Drop(ok)

BrowserSpec == Init /\ [][BrowserStep]_vars

\* ------------------------------------------- one request to /screenshot
\* One request seen at the level of the commands its handler sends.
RouteOnly == UNCHANGED << serverVars, clientVars, codecVars, connectVars,
                          browserVars, portVars >>

Release == Entry("release", << >>)

\* The handler returns: Ok(response), or the error through `?` and
\* into_response.  `log` is the log when it returns; `held` tells whether it
\* holds a worker, which is then dropped back into the pool.
RouteFinish(error, log, held) ==
  /\ rt_pc' = "done"
  /\ rt_error' = error
  /\ rt_response' = IF error = NoError THEN RouteResponse(StatusOk, "")
                    ELSE IntoResponse(error)
  /\ rt_log' = IF held THEN Append(log, Release) ELSE log

\* The field the mode asks for.
ModeField(q) == UnwrapOr(q.mode, "viewport")

\* The handler goes on to `next` with the log `log`.
RouteGoes(next, log) ==
  IF next = "missing" THEN RouteFinish(MissingField(ModeField(rt_query)), log, TRUE)
  ELSE IF next = "done" THEN RouteFinish(NoError, log, TRUE)
  ELSE /\ rt_pc' = next
       /\ rt_log' = log
       /\ UNCHANGED << rt_error, rt_response >>

\* The Query extractor made a ScreenshotQuery of the query string.
Receive(q) ==
  /\ rt_pc = "none"
  /\ rt_pc' = "get"
  /\ rt_query' = q
  /\ UNCHANGED << rt_chrome, rt_rect, rt_log, rt_error, rt_response >>
  /\ RouteOnly

\* The Query extractor rejected the query string: the handler is not run.
RejectQuery ==
  /\ rt_pc = "none"
  /\ RouteFinish(QueryRejection, rt_log, FALSE)
  /\ UNCHANGED << rt_query, rt_chrome, rt_rect >>
  /\ RouteOnly

\* state.get_browser() returned a worker, whose window is `chrome` larger than
\* its viewport.
GetBrowser(chrome) ==
  /\ rt_pc = "get"
  /\ rt_pc' = "navigate"
  /\ rt_chrome' = chrome
  /\ UNCHANGED << rt_query, rt_rect, rt_log, rt_error, rt_response >>
  /\ RouteOnly

\* state.get_browser() failed.
GetBrowserFails(error) ==
  /\ rt_pc = "get"
  /\ RouteFinish(error, rt_log, FALSE)
  /\ UNCHANGED << rt_query, rt_chrome, rt_rect >>
  /\ RouteOnly

\* Browser::navigate: parse_url rejects the url and no command is sent.
NavigateRejected ==
  /\ rt_pc = "navigate"
  /\ rt_query.url # "ok"
  /\ RouteFinish(IF rt_query.url = "unparsable" THEN ParseUrl
                 ELSE UnsupportedUrlProtocol, rt_log, TRUE)
  /\ UNCHANGED << rt_query, rt_chrome, rt_rect >>
  /\ RouteOnly

\* The command of the step is sent and answered with a success envelope; the
\* handler runs up to its next await.  SetWindowRect sets the outer size of
\* the window.
CommandOk ==
  /\ rt_pc \in RouteCommandSteps
  /\ rt_pc = "navigate" => rt_query.url = "ok"
  /\ LET command == StepCommand(rt_pc, rt_query) IN
       /\ rt_rect' = IF rt_pc = "resize"
                       THEN [width |-> command.arg[1], height |-> command.arg[2]]
                       ELSE rt_rect
       /\ RouteGoes(ScreenshotNext(rt_pc, rt_query), Append(rt_log, command))
  /\ UNCHANGED << rt_query, rt_chrome >>
  /\ RouteOnly

\* The command of the step fails: it could not be written, or what came back
\* was no frame, another id or a failure envelope.
CommandFails(error) ==
  /\ rt_pc \in RouteCommandSteps
  /\ rt_pc = "navigate" => rt_query.url = "ok"
  /\ RouteFinish(error,
                 IF error.kind = "FailedToWriteRequest" THEN rt_log
                 ELSE Append(rt_log, StepCommand(rt_pc, rt_query)),
                 TRUE)
  /\ UNCHANGED << rt_query, rt_chrome, rt_rect >>
  /\ RouteOnly

\* tokio::time::sleep(delay) is over: the handler matches on the mode.
DelayDone ==
  /\ rt_pc = "delay"
  /\ RouteGoes(ModeStep(rt_query),
               Append(rt_log, Entry("sleep", << UnwrapOr(rt_query.delay, DefaultDelay) >>)))
  /\ UNCHANGED << rt_query, rt_chrome, rt_rect >>
  /\ RouteOnly

\* TimeoutLayer: the deadline of the request fires.  The handler future is
\* dropped where it stands, a worker it holds goes back to the pool, and the
\* layer answers with its own response, which has no body.
RouteTimeout ==
  /\ rt_pc \notin {"none", "done"}
  /\ rt_pc' = "done"
  /\ rt_error' = Elapsed
  /\ rt_response' = RouteResponse(RequestTimeout, "")
  /\ rt_log' = IF rt_pc = "get" THEN rt_log ELSE Append(rt_log, Release)
  /\ UNCHANGED << rt_query, rt_chrome, rt_rect >>
  /\ RouteOnly

RouteStep ==
  \/ \E q \in ScreenshotQueries : Receive(q)
  \/ RejectQuery
  \/ \E chrome \in Sizes : GetBrowser(chrome)
  \/ \E error \in StateErrors : GetBrowserFails(error)
  \/ NavigateRejected
  \/ CommandOk
  \/ \E error \in CommandErrors : CommandFails(error)
  \/ DelayDone
  \/ RouteTimeout

RouteSpec == Init /\ [][RouteStep]_vars

\* --------------------------------------------- the Marionette ports
\* Workers created at the same time, seen at the level of the port each one
\* takes, the Firefox that listens on it and the Firefox its client reaches.
PortOnly == UNCHANGED << serverVars, clientVars, codecVars, connectVars,
                         browserVars, routeVars >>

\* The workers whose Firefox runs, or that are about to start it.
LiveOn(p) == { w \in PortWorkers : pt_port[w] = p /\ pt_pc[w] \in {"spawned", "handshake", "open"} }

\* The Firefox of w is gone: the port it listened on is free again and the
\* clients that had reached it are cut off.
ListenerWithout(w) == [p \in Ports |-> IF pt_listener[p] = w THEN NoWorker ELSE pt_listener[p]]

\* get_free_local_address: the listener bound to 127.0.0.1:0 got port p, which
\* nothing was listening on, and is dropped when the function returns.
GetFreeLocalAddress(w, p) ==
  /\ pt_pc[w] = "none"
  /\ pt_listener[p] = NoWorker
  /\ pt_pc' = [pt_pc EXCEPT ![w] = "address"]
  /\ pt_port' = [pt_port EXCEPT ![w] = p]
  /\ UNCHANGED << pt_listener, pt_peer >>
  /\ PortOnly

\* Process::spawn: Firefox is started with the profile whose user.js names
\* the port.
SpawnFirefox(w) ==
  /\ pt_pc[w] = "address"
  /\ pt_pc' = [pt_pc EXCEPT ![w] = "spawned"]
  /\ UNCHANGED << pt_port, pt_listener, pt_peer >>
  /\ PortOnly

\* The Firefox of w starts to listen on its port, if no other Firefox has it;
\* if one has, it runs without a Marionette listener.
FirefoxListens(w) ==
  /\ pt_pc[w] = "spawned"
  /\ pt_listener[pt_port[w]] = NoWorker
  /\ pt_listener' = [pt_listener EXCEPT ![pt_port[w]] = w]
  /\ UNCHANGED << pt_pc, pt_port, pt_peer >>
  /\ PortOnly

\* Marionette::new: connect reaches whatever listens on the port.  Firefox
\* serves one client at a time: it sends its handshake to the first and lets
\* a later one wait.
MarionetteConnects(w) ==
  /\ pt_pc[w] = "spawned"
  /\ pt_listener[pt_port[w]] # NoWorker
  /\ LET firefox == pt_listener[pt_port[w]] IN
       /\ pt_peer' = [pt_peer EXCEPT ![w] = firefox]
       /\ pt_pc' = [pt_pc EXCEPT ![w] =
                      IF \E v \in PortWorkers : pt_peer[v] = firefox
                        THEN "handshake" ELSE "open"]
  /\ UNCHANGED << pt_port, pt_listener >>
  /\ PortOnly

\* Marionette::new: connect found nothing listening until its timeout, and
\* Browser::new returns the error; its Firefox is killed.
MarionetteTimesOut(w) ==
  /\ pt_pc[w] = "spawned"
  /\ pt_listener[pt_port[w]] = NoWorker
  /\ pt_pc' = [pt_pc EXCEPT ![w] = "failed"]
  /\ UNCHANGED << pt_port, pt_listener, pt_peer >>
  /\ PortOnly

\* The request that waits for the worker is ended by its deadline while
\* read_handshake waits: the connection and the Firefox of w are dropped.
HandshakeAbandoned(w) ==
  /\ pt_pc[w] = "handshake"
  /\ pt_pc' = [pt_pc EXCEPT ![w] = "failed"]
  /\ pt_peer' = [v \in PortWorkers |->
                   IF v = w \/ (pt_peer[v] = w /\ pt_listener[pt_port[w]] = w)
                     THEN NoWorker ELSE pt_peer[v]]
  /\ pt_listener' = ListenerWithout(w)
  /\ UNCHANGED pt_port
  /\ PortOnly

PortStep(w) ==
  \/ \E p \in Ports : GetFreeLocalAddress(w, p)
  \/ SpawnFirefox(w)
  \/ FirefoxListens(w)
  \/ MarionetteConnects(w)
  \/ MarionetteTimesOut(w)
  \/ HandshakeAbandoned(w)

PortNext == \E w \in PortWorkers : PortStep(w)

PortSpec == Init /\ [][PortNext]_vars

\* The tokio runtime polls every handler that can make progress, and the timer
\* of TimeoutLayer fires.
FairSpec == Spec /\ \A h \in Handlers : WF_vars(HandlerStep(h))

\* ----------------------------------------------------------- the pool alone
\* The pool of a server started with browser_pool_max_size = PoolMaxSize,
\* under NumCallers requests at once, while no eviction runs and no shutdown
\* is signalled.  The requests are those that end at their first step: the
\* url is rejected or the deadline fires.
PoolInit == InitWith(PoolMaxSize)

PoolStep(h) ==
  \/ Arrive(h)
  \/ TakeIdle(h)
  \/ CreateBegin(h)
  \/ CreateSpawnFails(h)
  \/ CreateDone(h)
  \/ CreateFails(h)
  \/ \E q \in Queries : RejectUrl(h, q)
  \/ Timeout(h)

PoolNext == \E h \in Callers : PoolStep(h)

PoolSpec == PoolInit /\ [][PoolNext]_vars

\* Holders keep releasing: a get() that has its permit and a handler that has
\* its worker go on; a queued get() has no step of its own to rely on.
FairPoolSpec ==
  PoolSpec /\ \A h \in Callers : WF_vars(pc[h] \notin {"idle", "acquire"} /\ PoolStep(h))

\* ----------------------------------------------------------------- claims
\* The handlers that own a worker: being created or checked out.
Owners == { h \in Handlers : obj[h] # NoWorker }

\* C1: in every reachable state the idle workers, the checked-out workers and
\* the workers being created are together at most max_size.
PoolWithinMaxSize ==
  /\ Len(slots_vec) + Cardinality(Owners) <= MaxSize
  /\ slots_size <= MaxSize

\* C1 witness: the pool is at max_size with a worker being created, and a
\* second request is queued for a permit.
PoolFullWithWaiter ==
  /\ Len(slots_vec) + Cardinality(Owners) = MaxSize
  /\ \E h \in Handlers : pc[h] = "creating"
  /\ \E h \in Handlers : pc[h] = "acquire"

CheckedOut(w) == \E h \in Handlers : obj[h] = w /\ pc[h] \in Pipeline

Idle(w) == w \in Range(slots_vec)

\* A worker is fully closed: process not alive and profile directory absent.
Closed(w) == proc[w] # "alive" /\ ~profile[w]

\* C3: when the deadline fires while a handler holds a checked-out worker, the
\* worker is closed and is neither idle in the pool nor held by a later get().
DeadlineClosesWorker ==
  \A w \in Workers :
    fault[w] = "deadline" => Closed(w) /\ ~Idle(w) /\ ~CheckedOut(w)

\* A handler writes a command on the connection of w in this step.
Writes(w) ==
  \E h \in Handlers : obj[h] = w /\ awaiting[h] = "no" /\ awaiting'[h] # "no"

\* A handler reads a frame from the connection of w in this step.
Reads(w) ==
  \E h \in Handlers : obj[h] = w /\ awaiting[h] # "no" /\ awaiting'[h] = "no"

\* C4: once send() has returned CommandIdMismatch on the connection of a
\* worker, no command is written on it any more and the worker is not idle in
\* the pool.
NoCommandAfterIdMismatch ==
  [][\A w \in Workers :
       /\ fault[w] = "mismatch" => ~Writes(w)
       /\ fault'[w] = "mismatch" => w \notin Range(slots_vec')]_vars

\* C5: once a frame read has failed with a framing violation on the connection
\* of a worker, no frame is read from or written to it any more and no later
\* request holds the worker.
NoFrameAfterFramingViolation ==
  [][\A w \in Workers :
       fault[w] = "framing" =>
         /\ ~Writes(w) /\ ~Reads(w)
         /\ \A h \in Handlers : obj'[h] # w]_vars

\* C6: under fair scheduling a checked-out worker is eventually idle in the
\* pool again or fully closed.
CheckedOutEventuallyReleased ==
  \A w \in Workers : CheckedOut(w) ~> (Idle(w) \/ Closed(w))

\* C6 witness: a worker checked out by a request whose deadline then fired is
\* idle in the pool while the other handler waits for a response.
ReleasedAfterDeadline ==
  \E w \in Workers :
    /\ fault[w] = "deadline" /\ Idle(w)
    /\ response.error = "Timeout"

\* The errors a step of the pipeline fails with.
PipelineErrors ==
  { "ParseUrl", "UnsupportedUrlProtocol", "FailedToWriteRequest", "Framing",
    "CommandFailure", "CommandIdMismatch", "MissingField" }

\* The permits that are out: one per handler between acquire and release.
PermitsOut ==
  Cardinality({ h \in Handlers : pc[h] \in {"permit", "creating"} \cup Pipeline })

\* C7: when a step of the pipeline fails, the handler answers with the error
\* of that step, its worker is idle in the pool again, and the permit it held
\* is available again or has gone to the first queued get().
FailureReleasesWorker ==
  [][\A h \in Handlers :
       pc[h] \in Pipeline /\ pc'[h] = "idle" /\ response'.error \notin {"Ok", "Timeout"}
       => /\ response'.handler = h
          /\ response'.error \in PipelineErrors
          /\ obj[h] \in Range(slots_vec') /\ obj'[h] = NoWorker
          /\ slots_size' = slots_size
          /\ permits' + PermitsOut' = MaxSize]_vars

\* C7 witness: a command failed, the worker is idle again and the whole
\* capacity is available.
WorkerIdleAfterFailure ==
  /\ response.error = "CommandFailure"
  /\ slots_vec # << >>
  /\ permits = MaxSize

\* C8: workers with a live process never outnumber max_size.
LiveProcessesWithinMaxSize ==
  Cardinality({ w \in Workers : proc[w] = "alive" }) <= MaxSize

\* The workers eviction has taken out of the pool and not yet closed.
Evicted == Range(rl_removed) \cup Range(cl_removed)

\* C9: the periodic retain and the shutdown drain take only workers that are
\* idle in the pool; a worker a handler holds is never removed or closed by
\* them, whatever its age and recycle count.
EvictionTakesIdleOnly ==
  [][/\ \A w \in Evicted' \ Evicted : Idle(w) /\ ~CheckedOut(w)
     /\ \A w \in Workers :
          CheckedOut(w) /\ CheckedOut(w)' => w \notin Evicted' /\ profile'[w]]_vars

\* C9 witness: retain_loop has evicted a worker and is closing it while a
\* handler holds a worker that fails the retain predicate.
EvictionBesideCheckedOut ==
  /\ rl_pc \in {"close", "kill"}
  /\ \E w \in Workers : CheckedOut(w) /\ ~Keep(w)

\* C10: when start() returns, every worker the shutdown drain took out of the
\* pool is closed, also when closing one of them failed.
DrainClosesEveryWorker ==
  [][srv # "done" /\ srv' = "done" =>
       \A w \in Range(cl_removed) : proc'[w] # "alive" /\ ~profile'[w]]_vars

\* C11: a command is written on the connection of a worker only when the
\* response of every command written on it before has been read.
OneOutstandingRequest ==
  [][\A w \in Workers : Writes(w) => pending[w] = 0]_vars

\* C12: send returns the decoded result only for a success envelope whose id
\* is the id allocated for the request, and for every success envelope with
\* another id it returns CommandIdMismatch with expected = the request id and
\* got = the id received.
IdCheckedOnSuccess ==
  \A c \in Conns :
    LET x == last[c] IN
      /\ x.request_id # NoId /\ x.result.kind = "Ok"
           => x.frame.kind = "success" /\ x.frame.id = x.request_id
      /\ x.frame.kind = "success" /\ x.frame.id # x.request_id
           => x.result = Result("CommandIdMismatch", x.request_id, x.frame.id)

\* C12 witness: a send has returned CommandIdMismatch.
IdMismatchReturned ==
  \E c \in Conns :
    /\ last[c].result.kind = "CommandIdMismatch"
    /\ last[c].frame.kind = "success"
    /\ last[c].frame.id # last[c].request_id

\* C13: for a failure envelope send returns CommandFailure with the id of the
\* envelope, whether or not it is the id of the request, never
\* CommandIdMismatch.
FailurePrecedesIdCheck ==
  \A c \in Conns :
    last[c].frame.kind = "failure" =>
      /\ last[c].result.kind = "CommandFailure"
      /\ last[c].result.response_id = last[c].frame.id

\* C13 witness: a failure envelope with another id than the request's was
\* read.
FailureWithOtherId ==
  \E c \in Conns :
    /\ last[c].frame.kind = "failure"
    /\ last[c].frame.id # last[c].request_id
    /\ last[c].result.kind = "CommandFailure"

\* A command is written on connection c in this step.
WritesCommand(c) == request[c] = NoId /\ request'[c] # NoId

\* The handshake read on connection c was the one expected.
HandshakeValid(c) ==
  /\ last[c].frame.kind = "handshake"
  /\ last[c].frame.application_type = "gecko"
  /\ last[c].frame.marionette_protocol = 3

\* C14: the first command of a connection (NewSession) is written only after
\* a handshake frame was read and found valid; a handshake with another
\* applicationType or another marionetteProtocol fails the construction with
\* an error of its own, and no command is written and no client produced.
HandshakeBeforeNewSession ==
  [][\A c \in Conns :
       /\ WritesCommand(c) /\ conn_pc[c] # "ready" => HandshakeValid(c)
       /\ conn_pc[c] = "handshake" /\ conn_pc'[c] # "handshake" =>
            LET frame == last'[c].frame
                kind == last'[c].result.kind
            IN  /\ conn_pc'[c] = "new_session" <=> HandshakeValid(c)'
                /\ frame.kind = "handshake" /\ frame.application_type # "gecko"
                     => kind = "UnexpectedApplicationType"
                /\ frame.kind = "handshake" /\ frame.application_type = "gecko"
                     /\ frame.marionette_protocol # 3
                     => kind = "UnexpectedMarionetteProtocolVersion"
       /\ conn_pc[c] = "failed" => conn_pc'[c] = "failed" /\ ~WritesCommand(c)]_vars

\* C14 witness: one construction failed on the protocol version with no
\* command written, while another went on to its session.
HandshakeRejected ==
  \E c, d \in Conns :
    /\ conn_pc[c] = "failed"
    /\ last[c].result.kind = "UnexpectedMarionetteProtocolVersion"
    /\ conn_pc[d] = "ready"

ReleaseBumpsMetrics ==
  [][ \A w \in Workers :
        /\ (w \notin Range(slots_vec) /\ w \in Range(slots_vec')) =>
             /\ recycle_count'[w] = Min(recycle_count[w] + 1, MaxRecycleCount)
             /\ ~aged'[w]
        /\ (w \in Range(slots_vec) /\ \E h \in Handlers : obj'[h] = w) =>
             /\ recycle_count'[w] = recycle_count[w]
             /\ aged'[w] = aged[w] ]_vars

\* The number a string of digits stands for.
RECURSIVE DecimalValue(_)
DecimalValue(d) ==
  IF d = << >> THEN 0
  ELSE 10 * DecimalValue(SubSeq(d, 1, Len(d) - 1)) + (d[Len(d)] - Zero)

\* A valid frame: a decimal byte length, ':' and that many bytes of UTF-8.
ValidFrame(x) ==
  /\ x.prefix # << >>
  /\ \A i \in DOMAIN x.prefix : IsDigit(x.prefix[i])
  /\ DecimalValue(x.prefix) = Len(x.payload)
  /\ FromUtf8(x.payload) # Invalid

\* The length is written without leading zeros.
NoLeadingZero(x) == Len(x.prefix) = 1 \/ x.prefix[1] # Zero

\* The prefix of a frame written is the number of bytes that follow its ':'.
PrefixCountsBytes(data) ==
  \E i \in DOMAIN data :
    /\ data[i] = Colon
    /\ \A j \in 1..(i - 1) : IsDigit(data[j])
    /\ DecimalValue(SubSeq(data, 1, i - 1)) = Len(data) - i

\* C15: when the stream holds valid frames back-to-back, the successive reads
\* return their payloads in order, each exactly its own bytes, however the
\* bytes are chunked across the reads of the stream.
BackToBackFramesDecoded ==
  (\A i \in DOMAIN fed : ValidFrame(fed[i])) =>
    \A i \in DOMAIN decoded :
      decoded[i].kind = "Ok" /\ Utf8(decoded[i].string) = fed[i].payload

\* C16 as stated: decoding a valid frame and encoding the payload again gives
\* the frame back, and the length the encoder writes is the byte length of
\* the body.
RoundTripEveryValidFrame ==
  /\ (Len(fed) = 1 /\ ValidFrame(fed[1]) /\ rd_pc = "closed") =>
        /\ decoded[1].kind = "Ok"
        /\ Encode(decoded[1].string) = ItemBytes(fed[1])
  /\ wrote.kind # "none" => PrefixCountsBytes(wrote.data)

\* C16 amended: decoding a valid frame whose length is written without leading
\* zeros and encoding the payload again gives the frame back, and the length
\* the encoder writes is the byte length of the body.
RoundTripCanonicalFrame ==
  /\ (Len(fed) = 1 /\ ValidFrame(fed[1]) /\ NoLeadingZero(fed[1]) /\ rd_pc = "closed") =>
        /\ decoded[1].kind = "Ok"
        /\ Encode(decoded[1].string) = ItemBytes(fed[1])
  /\ wrote.kind # "none" => PrefixCountsBytes(wrote.data)

\* C16 witness: a body of one two-byte char was written whole, and the same
\* frame was read back and decoded to that char.
TwoByteCharRoundTrip ==
  /\ wrote.kind = "Ok" /\ wrote.accepted = Len(wrote.data)
  /\ Len(fed) = 1 /\ ItemBytes(fed[1]) = wrote.data
  /\ rd_pc = "closed"
  /\ decoded[1].kind = "Ok" /\ Len(decoded[1].string) = 1
  /\ Len(fed[1].payload) = 2

\* C17: when the stream accepts fewer bytes than the frame holds, write fails
\* and no response is read.
ShortWriteFails ==
  (wrote.kind # "none" /\ wrote.accepted < Len(wrote.data)) =>
    wrote.kind = "FailedToWriteRequest" /\ rd_pc = "none"

\* g queued for a permit before h did, and the get() of neither has returned.
QueuedBefore(g, h) ==
  \E i, j \in DOMAIN waited : i < j /\ waited[i] = g /\ waited[j] = h

\* The get() of h returns a worker in this step.
Obtains(h) == pc[h] \in {"permit", "creating"} /\ pc'[h] \in Pipeline

ConnectWithinBudget ==
  /\ attempt_at <= TimeoutMs
  /\ cn_pc = "timeout" => elapsed <= TimeoutMs

\* C23: connect returns: Ok exactly when the last attempt succeeded, which it
\* returns at once, and ConnectionTimeout, with the address and the error of
\* the last attempt, only when that attempt and the ones before failed.
ConnectTerminates ==
  /\ [](/\ cn_last = "ok" <=> cn_pc = "connected"
        /\ cn_pc = "connected" <=> cn_result = ConnectOk
        /\ cn_pc = "timeout" <=>
             cn_result.kind = "ConnectionTimeout"
        /\ cn_pc = "timeout" =>
             /\ cn_last \in IoErrors
             /\ cn_result.source = cn_last
             /\ cn_result.address = Address
        /\ cn_pc \in {"none", "attempt", "sleep"} => cn_result = NoConnectResult)
  /\ [][(cn_pc \in {"connected", "timeout"}) => connectVars' = connectVars]_vars
  /\ (cn_pc = "attempt") ~> (cn_pc \in {"connected", "timeout"})

\* C23 witness: connect has returned ConnectionTimeout after attempts that
\* failed with different errors.
ConnectTimedOut ==
  /\ cn_pc = "timeout"
  /\ cn_result.source = "TimedOut"
  /\ elapsed > TimeoutMs

\* Browser::close has returned (a value, or the panic of a drop on its way out).
CloseReturned == br_pc = "closed"

\* C24: once close has returned, a process that was found Alive has been
\* killed unless the kill failed; a status that was Error gave the result
\* ChildStatus with its description; after a result of Ok or ChildStatus the
\* process is not alive and the profile directory is absent; and an Ok result
\* carries the final status of the process.
CloseContract ==
  CloseReturned =>
    /\ br_read.kind = "Alive" /\ br_result.kind \notin {"KillChild", "panic"}
         => br_child # "alive"
    /\ br_read.kind = "Error" => br_result = ChildStatus(br_read.error)
    /\ br_result.kind \in {"Ok", "ChildStatus"} => br_child # "alive" /\ ~br_dir
    /\ br_result.kind = "Ok"
         => br_result.status = ProcessStatus(br_child, br_code, FALSE)

\* C24, amended: as above, except that a status that was Error gives the
\* result ChildStatus with its description only if the removal of the profile
\* directory did not fail; a removal that fails is the result of close
\* whatever the status was.
CloseContractUnlessRemovalFails ==
  CloseReturned =>
    /\ br_read.kind = "Alive" /\ br_result.kind \notin {"KillChild", "panic"}
         => br_child # "alive"
    /\ br_read.kind = "Error"
         => \/ br_result = ChildStatus(br_read.error)
            \/ br_result = RemoveDirectory /\ br_dir
    /\ br_read.kind # "Alive" /\ br_dir => br_result = RemoveDirectory
    /\ br_result.kind \in {"Ok", "ChildStatus"} => br_child # "alive" /\ ~br_dir
    /\ br_result.kind = "Ok"
         => br_result.status = ProcessStatus(br_child, br_code, FALSE)

\* C24 witness: close found the status Error while Firefox was running,
\* removed the profile directory and returned ChildStatus.
CloseReturnedChildStatus ==
  /\ CloseReturned
  /\ br_read.kind = "Error"
  /\ br_result = ChildStatus(TryWaitError)
  /\ \E i \in DOMAIN br_released : br_released[i] = Released("process", TRUE)

\* The place of a resource in the teardown order.
Rank(what) ==
  CASE what = "socket" -> 1
    [] what = "process" -> 2
    [] what = "profile" -> 3

\* C25: the resources of a worker are released socket first, then the
\* process, then the profile directory, and the profile directory is never
\* removed while the process is alive.
ReleasedInReverseOrder ==
  /\ \A i, j \in DOMAIN br_released :
       i < j => Rank(br_released[i].what) <= Rank(br_released[j].what)
  /\ \A i \in DOMAIN br_released :
       br_released[i].what = "profile" => ~br_released[i].alive

\* C26: when Browser::new has returned an error, no process of the worker is
\* alive, no socket is open, and the profile directory is absent unless its
\* removal failed, which was raised as a panic.
NewFailureLeavesNothing ==
  br_pc = "failed" =>
    /\ br_child # "alive"
    /\ br_socket # "open"
    /\ br_dir => br_result = Panic

\* C26 witness: Marionette::new failed while Firefox was running; the process
\* was killed and the profile directory removed.
NewFailedAfterSpawn ==
  /\ br_pc = "failed"
  /\ br_result = NewError("Marionette")
  /\ ~br_dir
  /\ \E i \in DOMAIN br_released : br_released[i] = Released("process", TRUE)

\* The names of the entries of a log, and the commands among them.
Names(log) == [i \in DOMAIN log |-> log[i].name]

IsPrefix(s, t) == Len(s) <= Len(t) /\ \A i \in DOMAIN s : s[i] = t[i]

\* The mode of a query, and whether the field its mode asks for is absent.
ModeOf(q) == UnwrapOr(q.mode, "viewport")

FieldMissing(q) ==
  \/ ModeOf(q) = "selector" /\ q.selector = None
  \/ ModeOf(q) = "xpath" /\ q.xpath = None

\* What a request that succeeds sends, in order, by the list of the pipeline.
ExpectedOrder(q) ==
  << "WebDriver:Navigate" >>
  \o (IF UnwrapOr(q.scrollbar, FALSE) = FALSE THEN << "WebDriver:ExecuteScript" >>
      ELSE << >>)
  \o << "WebDriver:SetWindowRect" >>
  \o (IF UnwrapOr(q.delay, 0) > 0 THEN << "sleep" >> ELSE << >>)
  \o (IF ModeOf(q) \in {"selector", "xpath"} THEN << "WebDriver:FindElement" >>
      ELSE << >>)
  \o << "WebDriver:TakeScreenshot" >>

\* C27: what reaches the worker for one request is, in order, a prefix of
\* Navigate, the scrollbar script iff scrollbar is false, the resize, the
\* sleep iff delay > 0, FindElement iff the mode is selector or xpath, and one
\* TakeScreenshot; a request that succeeds sent all of it; the release comes
\* last and once.
CommandsInPipelineOrder ==
  LET names == Names(rt_log)
      sent == SelectSeq(names, LAMBDA n : n # "release") IN
    /\ IsPrefix(sent, ExpectedOrder(rt_query))
    /\ \A i \in DOMAIN names : names[i] = "release" => i = Len(names) /\ rt_pc = "done"
    /\ rt_pc = "done" /\ rt_error = NoError
         => names = ExpectedOrder(rt_query) \o << "release" >>

\* C27 witness: a request with the scrollbar hidden, a delay and a selector
\* has succeeded.
FullPipelineDone ==
  /\ rt_pc = "done"
  /\ rt_error = NoError
  /\ Len(rt_log) = 7

\* C28: once the resize is done, the delta script was run and SetWindowRect
\* followed it with the requested size plus the delta, and the viewport has
\* the requested size.
ViewportAsRequested ==
  LET width == UnwrapOr(rt_query.width, DefaultWidth)
      height == UnwrapOr(rt_query.height, DefaultHeight) IN
    (\E i \in DOMAIN rt_log : rt_log[i].name = "WebDriver:SetWindowRect") =>
      /\ \E i \in DOMAIN rt_log :
           /\ rt_log[i].name = "WebDriver:ExecuteScript"
           /\ rt_log[i].arg = << DeltaScript >>
           /\ i + 1 \in DOMAIN rt_log
           /\ rt_log[i + 1].name = "WebDriver:SetWindowRect"
           /\ rt_log[i + 1].arg = << width + rt_chrome.width, height + rt_chrome.height >>
      /\ rt_rect.width - rt_chrome.width = width
      /\ rt_rect.height - rt_chrome.height = height

\* C29: a request whose mode is selector or xpath and that lacks the field of
\* that name sends neither FindElement nor TakeScreenshot and never succeeds;
\* MissingField is returned only for such a request, is answered with 400 and
\* the cause "missing field: " followed by the name, and the worker is
\* released.
MissingFieldAnswered ==
  /\ FieldMissing(rt_query) =>
       /\ \A i \in DOMAIN rt_log :
            rt_log[i].name \notin {"WebDriver:FindElement", "WebDriver:TakeScreenshot"}
       /\ rt_pc = "done" => rt_error # NoError
  /\ rt_error.kind = "MissingField" =>
       /\ FieldMissing(rt_query)
       /\ rt_error = MissingField(ModeOf(rt_query))
       /\ rt_response =
            RouteResponse(BadRequest,
                          IF ModeOf(rt_query) = "selector" THEN "missing field: selector"
                          ELSE "missing field: xpath")
       /\ rt_log # << >> /\ rt_log[Len(rt_log)] = Release

\* C29 witness: a request with mode=xpath and no xpath slept, then ended with
\* MissingField.
MissingXPathAfterDelay ==
  /\ rt_error.kind = "MissingField"
  /\ ModeOf(rt_query) = "xpath"
  /\ \E i \in DOMAIN rt_log : rt_log[i].name = "sleep"

\* The status the table of errors gives each kind of error.
TableStatus(kind) ==
  IF kind \in {"MissingField", "QueryRejection", "ParseUrl", "UnsupportedUrlProtocol"}
    THEN BadRequest
  ELSE IF kind = "CommandFailure" THEN UnprocessableEntity
  ELSE InternalServerError

\* C30: an error is answered with the status of the table, a CommandFailure
\* with the cause "<error>: <message>", and every error with a cause.
StatusFollowsTable ==
  rt_pc = "done" /\ rt_error # NoError =>
    /\ rt_response.status = TableStatus(rt_error.kind)
    /\ rt_error.kind = "CommandFailure"
         => rt_response.cause = FailureError \o ": " \o FailureMessage
    /\ rt_response.cause # ""

\* C31: a request ended by its deadline is over, with its worker no longer in
\* the hands of the handler, and is answered with status 500 and a body that
\* carries a cause.
DeadlineAnsweredWithCause ==
  rt_error = Elapsed =>
    /\ rt_pc = "done"
    /\ rt_response.status = InternalServerError
    /\ rt_response.cause # ""

\* C32: the client of a worker has reached no Firefox but its own, and no two
\* workers whose Firefox runs have the same port.
OwnFirefoxOnly ==
  /\ \A w \in PortWorkers : pt_peer[w] \in {NoWorker, w}
  /\ \A p \in Ports : Cardinality(LiveOn(p)) <= 1

\* The workers of the pool: those counted in slots.size and those being made.
PoolLoad == slots_size + Cardinality({ g \in Callers : pc[g] = "creating" })

\* The get() of h starts to create a worker only with no idle worker and the
\* pool below its capacity.
CreatesOnlyWhenNeeded(h) ==
  pc[h] = "permit" /\ pc'[h] = "creating" =>
    /\ slots_vec = << >>
    /\ PoolLoad < PoolMaxSize

\* A get() that starts with the pool at capacity and no idle worker waits.
WaitsAtCapacity(h) ==
  pc[h] = "idle" /\ pc'[h] # "idle" /\ slots_vec = << >> /\ PoolLoad = PoolMaxSize =>
    /\ pc'[h] = "acquire"
    /\ obj'[h] = NoWorker

\* The get() of h returns while a worker is idle.
ObtainsWithIdle(h) == Obtains(h) /\ pc[h] = "permit" /\ slots_vec # << >>

\* C33 as stated: a worker is created only with none idle and the pool below
\* capacity, a get at capacity with none idle waits, and with a worker idle
\* get returns, without creating one, the worker that was released last.
LastReleasedReturnedNext ==
  [][\A h \in Callers :
       /\ CreatesOnlyWhenNeeded(h)
       /\ WaitsAtCapacity(h)
       /\ ObtainsWithIdle(h) =>
            /\ nextWorker' = nextWorker
            /\ obj'[h] = slots_vec[Len(slots_vec)]]_vars

\* C33 amended: a worker is created only with none idle and the pool below
\* capacity, a get at capacity with none idle waits, and with a worker idle
\* get returns, without creating one, the worker that has been idle longest:
\* the worker released last only when no other worker is idle.
LongestIdleReturnedNext ==
  [][\A h \in Callers :
       /\ CreatesOnlyWhenNeeded(h)
       /\ WaitsAtCapacity(h)
       /\ ObtainsWithIdle(h) =>
            /\ nextWorker' = nextWorker
            /\ obj'[h] = slots_vec[1]
            /\ Len(slots_vec) = 1 => obj'[h] = slots_vec[Len(slots_vec)]]_vars

\* C33 witness: a caller holds a worker it took from the idle queue, the pool
\* is at capacity with no worker idle, and another caller waits.
ReusedWhileOtherIdle ==
  \E g, h \in Callers :
    /\ g # h
    /\ pc[h] \in Pipeline /\ recycle_count[obj[h]] > 0
    /\ pc[g] = "acquire"
    /\ slots_vec = << >> /\ slots_size = PoolMaxSize

\* The errors of response::read that carry no byte and no string.
UnexpectedEndOfResponse == ReadResult("UnexpectedEndOfResponse", << >>, NoByte)

\* The first byte of a prefix that is not a digit, NoByte if it has none.
FirstNonDigit(prefix) ==
  IF \A i \in DOMAIN prefix : IsDigit(prefix[i]) THEN NoByte
  ELSE prefix[CHOOSE i \in DOMAIN prefix :
                /\ ~IsDigit(prefix[i])
                /\ \A j \in 1..(i - 1) : IsDigit(prefix[j])]

\* The digits a prefix starts with.
LeadingDigits(prefix) ==
  SubSeq(prefix, 1, Cardinality({ i \in DOMAIN prefix : \A j \in 1..i : IsDigit(prefix[j]) }))

\* The length a prefix starts with is a value of usize.
Fits(prefix) == DecimalValue(LeadingDigits(prefix)) < UsizeModulus

\* C34: a byte of the length prefix that is neither a digit nor ':' gives
\* UnexpectedByte with that byte; the end of the stream before ':' gives
\* UnexpectedEndOfResponse, and so does the end of the stream before the
\* payload has as many bytes as the prefix says; a length of 0 decodes to the
\* empty payload, and no byte after the ':' is read for it.  The frames are
\* those whose length is a value of usize.
MalformedFramesClassified ==
  /\ [][ /\ (rd_pc = "length" /\ stream # << >> /\ Head(stream) # Colon
               /\ ~(Head(stream) \in Zero..(Zero + 9))) =>
                /\ decoded' = Append(decoded,
                                     ReadResult("UnexpectedByte", << >>, Head(stream)))
                /\ rd_pc' = "closed"
         /\ (rd_pc \in {"length", "string"} /\ stream = << >>) =>
                /\ decoded' = Append(decoded, UnexpectedEndOfResponse)
                /\ rd_pc' = "closed"
         /\ (rd_pc = "length" /\ stream # << >> /\ Head(stream) = Colon /\ bytes = 0) =>
                /\ decoded' = Append(decoded, ReadResult("Ok", << >>, NoByte))
                /\ stream' = Tail(stream)
     ]_vars
  /\ [](decoded # << >> /\ Fits(fed[1].prefix) =>
          LET x == fed[1] IN
            /\ FirstNonDigit(x.prefix) # NoByte =>
                 decoded[1] = ReadResult("UnexpectedByte", << >>, FirstNonDigit(x.prefix))
            /\ (FirstNonDigit(x.prefix) = NoByte /\ Len(fed) = 1
                  /\ Len(x.payload) < DecimalValue(x.prefix)) =>
                 decoded[1] = UnexpectedEndOfResponse
            /\ (FirstNonDigit(x.prefix) = NoByte /\ DecimalValue(x.prefix) = 0) =>
                 /\ decoded[1] = ReadResult("Ok", << >>, NoByte)
                 /\ (Len(decoded) = 1 /\ rd_pc # "string" /\ bytes = 0 /\ Len(fed) = 1) =>
                      stream = x.payload)

\* C34 witness: the stream ended one byte into a payload of two, and the read
\* returned UnexpectedEndOfResponse.
PayloadCutShort ==
  /\ Len(fed) = 1
  /\ fed[1].prefix = << 50 >> /\ Len(fed[1].payload) = 1
  /\ decoded = << UnexpectedEndOfResponse >>
  /\ rd_pc = "closed"

\* C35: send returns a result only for an envelope whose first element is 1,
\* the direction of a response.
SuccessOnlyFromResponse ==
  \A c \in Conns :
    (last[c].request_id # NoId /\ last[c].result.kind = "Ok") =>
      last[c].frame.direction = DirectionResponse

\* The errors of request::send that a broken frame gives.
FramingErrors ==
  {"ParseResponse", "UnexpectedByte", "UnexpectedEndOfResponse", "ResponseToString"}

\* C36: a send on a connection where an earlier command was left unanswered
\* reads the response to that command and fails with CommandIdMismatch or a
\* framing error; it does not return it.
StaleResponseRejected ==
  [][\A c \in Conns :
       (request[c] # NoId /\ Len(owed[c]) > 1 /\ last'[c] # last[c]) =>
         /\ last'[c].frame.id = Head(owed[c])
         /\ last'[c].result.kind \in {"CommandIdMismatch"} \cup FramingErrors]_vars

\* The get() of h fails in this step because the worker could not be made.
CreationFails(h) ==
  /\ pc[h] \in {"permit", "creating"}
  /\ response' = [handler |-> h, error |-> "Pool"]

\* The callers that hold a permit of the pool.
PermitHolders == { g \in Callers : pc[g] \notin {"idle", "acquire"} }

\* C37: when the creation of a worker fails, get returns the pool error and
\* keeps nothing: the size of the pool and its idle workers are as they
\* were, the permit is back (free, or handed to the first waiter), the pool
\* has room for the worker a later get creates, and nothing is left of the
\* worker that was being made.
FailedCreationKeepsNothing ==
  [][\A h \in Callers :
       CreationFails(h) =>
         /\ pc'[h] = "idle" /\ obj'[h] = NoWorker
         /\ slots_size' = slots_size /\ slots_vec' = slots_vec
         /\ Cardinality(PermitHolders') + permits' = PoolMaxSize
         /\ IF waiters = << >> THEN permits' = permits + 1
            ELSE permits' = permits /\ pc'[Head(waiters)] = "permit"
         /\ PoolLoad' < PoolMaxSize
         /\ obj[h] # NoWorker => proc'[obj[h]] # "alive" /\ ~profile'[obj[h]]
     ]_vars

\* C37 witness: two creations failed one after the other, the second by its
\* Marionette connection, and the pool is as it was at the start.
CreationFailedTwice ==
  /\ response.error = "Pool"
  /\ nextWorker = 2 /\ proc[1] = "dead" /\ proc[2] = "dead"
  /\ permits = PoolMaxSize /\ slots_size = 0 /\ slots_vec = << >>

\* C38: as long as the server has not exited, retain_loop is asleep until its
\* next round or closing the workers its last round removed; a close that
\* fails does not end it.
EvictionKeepsRunning ==
  srv # "done" => rl_pc \in {"sleep", "close", "kill"}

\* C39: the worker get() takes from the idle queue is within the limits of
\* the eviction: its recycle_count is below the maximum and it has been idle
\* for less than the maximum age.
HandedOutWithinLimits ==
  [][\A h \in Handlers :
       (pc[h] = "permit" /\ Obtains(h) /\ slots_vec # << >>) =>
         /\ obj'[h] = Front(slots_vec)
         /\ recycle_count[obj'[h]] < MaxRecycleCount
         /\ ~aged[obj'[h]]]_vars

\* C40: read_length returns the decimal value of the digits it has read,
\* whatever their number: it does not panic, the length read_string is given
\* is the value of the prefix, and a prefix whose value is no usize ends the
\* read with an error.
LengthExactOrError ==
  /\ \A i \in DOMAIN decoded : decoded[i].kind # "panic"
  /\ (decoded = << >> /\ rd_pc = "string") => bytes = DecimalValue(fed[1].prefix)
  /\ (decoded # << >> /\ FirstNonDigit(fed[1].prefix) = NoByte /\ ~Fits(fed[1].prefix)) =>
       decoded[1].kind # "Ok"

====
